---------------------------- MODULE Spec2Model ----------------------------
(***************************************************************************)
(* Model of the real-time bridge of enhanced-bridge.py: the normalizer,    *)
(* the two bounded session buffers guarded by session_lock, the risk       *)
(* assessment, the list/search/detail endpoints and the budgeted content   *)
(* extraction.                                                             *)
(*                                                                         *)
(* Conventions.  A Python string is a tuple of one-character strings, so   *)
(* that slicing, strip(), lower() and the `in` test are computed and not   *)
(* assumed.  A loosely typed JSON value is a record [t, n, s] with         *)
(* t in {"absent","null","int","str"}.  Times are integer milliseconds     *)
(* (time.time()*1000).  A stored session is [oid, rec]: oid is the         *)
(* identity of the dict object that both deques reference.                 *)
(***************************************************************************)
EXTENDS Integers, Sequences, FiniteSets, TLC

VARIABLES
    live_sessions,        \* self.live_sessions        deque(maxlen=5000)
    suspicious_sessions,  \* self.suspicious_sessions  deque(maxlen=1000)
    now,                  \* the wall clock, in milliseconds
    next_oid,             \* number of dict objects appended so far
    ingested,             \* history: sessions appended since live_sessions was last cleared
    last_clear,           \* history: next_oid at the last clear of live_sessions
    response,             \* the response of the last request handled, or the value returned
    args,                 \* the arguments of the function under check (<<>> when none)
    assessed,             \* history: the <<oid, risk assessment, time>> triples computed so far
    session_lock,         \* self.session_lock: the worker holding it, or NoWorker
    threads               \* per request worker: where it stands in its handler, and its locals

vars == <<live_sessions, suspicious_sessions, now, next_oid, ingested, last_clear, response, args,
          assessed, session_lock, threads>>

store == <<live_sessions, suspicious_sessions, next_oid, ingested, last_clear>>

threading == <<session_lock, threads>>

---------------------------------------------------------------------------
(* Bounds of the model *)

LiveMaxlen == 2        \* stands for deque(maxlen=5000)
SuspiciousMaxlen == 1  \* stands for deque(maxlen=1000)
MaxIngest == 4         \* stored sessions per behaviour
MaxTicks == 1          \* clock ticks per behaviour
StartTime == 100000    \* the clock at start, ms
NumWorkers == 2        \* request workers running concurrently

Workers == 1..NumWorkers
NoWorker == 0

\* a worker between two requests
Idle == [pc |-> "idle", sess |-> <<>>, flag |-> FALSE, seen_live |-> <<>>,
         seen_suspicious |-> <<>>]

---------------------------------------------------------------------------
(* Python strings *)

Min(a, b) == IF a < b THEN a ELSE b
Max(a, b) == IF a > b THEN a ELSE b

LowerChar(c) ==
    CASE c = "A" -> "a" [] c = "B" -> "b" [] c = "C" -> "c" [] c = "D" -> "d"
      [] c = "E" -> "e" [] c = "F" -> "f" [] c = "G" -> "g" [] c = "H" -> "h"
      [] c = "I" -> "i" [] c = "J" -> "j" [] c = "K" -> "k" [] c = "L" -> "l"
      [] c = "M" -> "m" [] c = "N" -> "n" [] c = "O" -> "o" [] c = "P" -> "p"
      [] c = "Q" -> "q" [] c = "R" -> "r" [] c = "S" -> "s" [] c = "T" -> "t"
      [] c = "U" -> "u" [] c = "V" -> "v" [] c = "W" -> "w" [] c = "X" -> "x"
      [] c = "Y" -> "y" [] c = "Z" -> "z" [] OTHER -> c

\* s.lower()
Lower(s) == [i \in 1..Len(s) |-> LowerChar(s[i])]

IsSpace(c) == c \in {" ", "\t", "\n", "\r"}

RECURSIVE LStrip(_)
LStrip(s) == IF s # <<>> /\ IsSpace(Head(s)) THEN LStrip(Tail(s)) ELSE s

RECURSIVE RStrip(_)
RStrip(s) ==
    IF s # <<>> /\ IsSpace(s[Len(s)]) THEN RStrip(SubSeq(s, 1, Len(s) - 1)) ELSE s

\* s.strip()
Strip(s) == RStrip(LStrip(s))

\* s[:n]
Take(s, n) == SubSeq(s, 1, Min(n, Len(s)))

\* sub in s
Contains(sub, s) ==
    \E i \in 0..(Len(s) - Len(sub)) : SubSeq(s, i + 1, i + Len(sub)) = sub

\* s.startswith(p)
StartsWith(s, p) == Len(p) <= Len(s) /\ SubSeq(s, 1, Len(p)) = p

\* index of the first character of s that lies in cs, or Len(s)+1
FirstOf(cs, s) ==
    LET hits == {i \in 1..Len(s) : s[i] \in cs}
    IN  IF hits = {} THEN Len(s) + 1 ELSE CHOOSE i \in hits : \A j \in hits : i <= j

\* index of the last character of s that lies in cs, or 0
LastOf(cs, s) ==
    LET hits == {i \in 1..Len(s) : s[i] \in cs}
    IN  IF hits = {} THEN 0 ELSE CHOOSE i \in hits : \A j \in hits : i >= j

DigitChars == <<"0", "1", "2", "3", "4", "5", "6", "7", "8", "9">>

RECURSIVE NatDigits(_)
NatDigits(n) ==
    IF n < 10 THEN <<DigitChars[n + 1]>>
    ELSE NatDigits(n \div 10) \o <<DigitChars[(n % 10) + 1]>>

\* str(n) of an int
IntStr(n) == IF n < 0 THEN <<"-">> \o NatDigits(-n) ELSE NatDigits(n)

DigitValue(c) == CHOOSE k \in 0..9 : DigitChars[k + 1] = c

IsDigit(c) == \E k \in 1..10 : DigitChars[k] = c

RECURSIVE DigitsNat(_)
DigitsNat(s) ==
    IF s = <<>> THEN 0
    ELSE 10 * DigitsNat(SubSeq(s, 1, Len(s) - 1)) + DigitValue(s[Len(s)])

---------------------------------------------------------------------------
(* Loosely typed JSON values and the payload mapping *)

Absent == [t |-> "absent", n |-> 0, s |-> <<>>]
None == [t |-> "null", n |-> 0, s |-> <<>>]
PyInt(k) == [t |-> "int", n |-> k, s |-> <<>>]
PyStr(cs) == [t |-> "str", n |-> 0, s |-> cs]
PyBool(b) == [t |-> "bool", n |-> IF b THEN 1 ELSE 0, s |-> <<>>]

\* bool(v)
Truthy(v) ==
    CASE v.t = "int" -> v.n # 0
      [] v.t = "bool" -> v.n # 0
      [] v.t = "str" -> v.s # <<>>
      [] OTHER -> FALSE

\* a or b
Or(a, b) == IF Truthy(a) THEN a ELSE b

\* str(v)
StrOf(v) ==
    CASE v.t = "int" -> IntStr(v.n)
      [] v.t = "str" -> v.s
      [] OTHER -> <<"N", "o", "n", "e">>

Keys == {"id", "session_id", "fiddler_session_id", "url", "host", "method",
         "statusCode", "status", "contentLength", "body_length", "received_at",
         "ekfiddleComments", "sessionFlags", "ekfiddleFlags"}

\* {}
EmptyDict == [k \in Keys |-> Absent]

\* key in d
Has(d, k) == d[k].t # "absent"

\* d.get(k)
Get(d, k) == IF Has(d, k) THEN d[k] ELSE None

\* d.get(k, default)
GetOr(d, k, default) == IF Has(d, k) THEN d[k] ELSE default

\* not d
IsEmptyDict(d) == \A k \in Keys : ~Has(d, k)

\* int(v) inside try/except (ValueError, TypeError): the int, or 0 on failure
IntOrZero(v) ==
    CASE v.t = "int" -> v.n
      [] v.t = "str" ->
            LET b == Strip(v.s)
                neg == b # <<>> /\ Head(b) = "-"
                body == IF b # <<>> /\ Head(b) \in {"-", "+"} THEN Tail(b) ELSE b
            IN  IF body # <<>> /\ \A i \in 1..Len(body) : IsDigit(body[i])
                THEN (IF neg THEN -DigitsNat(body) ELSE DigitsNat(body))
                ELSE 0
      [] OTHER -> 0

---------------------------------------------------------------------------
(* urlparse(url).hostname *)

LowerLetters == {"a", "b", "c", "d", "e", "f", "g", "h", "i", "j", "k", "l", "m",
                 "n", "o", "p", "q", "r", "s", "t", "u", "v", "w", "x", "y", "z"}

IsSchemeChar(c) == LowerChar(c) \in LowerLetters \/ IsDigit(c) \/ c \in {"+", "-", "."}

\* the url with a leading "scheme:" removed
UrlRest(u) ==
    LET i == FirstOf({":"}, u)
    IN  IF /\ 1 < i /\ i <= Len(u)
           /\ LowerChar(u[1]) \in LowerLetters
           /\ \A j \in 1..(i - 1) : IsSchemeChar(u[j])
        THEN SubSeq(u, i + 1, Len(u))
        ELSE u

Netloc(u) ==
    LET r == UrlRest(u)
    IN  IF StartsWith(r, <<"/", "/">>)
        THEN LET b == SubSeq(r, 3, Len(r))
             IN  SubSeq(b, 1, FirstOf({"/", "?", "#"}, b) - 1)
        ELSE <<>>

Hostname(u) ==
    LET nl == Netloc(u)
        hostport == SubSeq(nl, LastOf({"@"}, nl) + 1, Len(nl))
        h == SubSeq(hostport, 1, FirstOf({":"}, hostport) - 1)
    IN  IF h = <<>> THEN None ELSE PyStr(Lower(h))

---------------------------------------------------------------------------
(* normalize_session *)

IdAliases == <<"id", "session_id", "fiddler_session_id">>

\* n of a set of indices, the least one
Least(S) == CHOOSE i \in S : \A j \in S : i <= j

\* the if/elif chain of the try block: the first alias, in priority order,
\* that is present and not null, as a string; None when there is none
Sid(d) ==
    IF Has(d, "id") /\ d["id"].t # "null" THEN PyStr(StrOf(d["id"]))
    ELSE IF Has(d, "session_id") /\ d["session_id"].t # "null" THEN PyStr(StrOf(d["session_id"]))
    ELSE IF Has(d, "fiddler_session_id") /\ d["fiddler_session_id"].t # "null"
         THEN PyStr(StrOf(d["fiddler_session_id"]))
    ELSE None

\* an except block that recovers the id from the key "id" alone
ErrorSid_IdOnly(d) ==
    IF Has(d, "id") /\ d["id"].t # "null" THEN PyStr(StrOf(d["id"])) ELSE None

\* the loop of the except block over ["id", "session_id", "fiddler_session_id"]
ErrorSid(d) ==
    LET hits == {i \in 1..Len(IdAliases) : Has(d, IdAliases[i]) /\ d[IdAliases[i]].t # "null"}
    IN  IF hits = {} THEN None ELSE PyStr(StrOf(d[IdAliases[Least(hits)]]))

\* The exception the normal path raises, as str(e); <<>> when it raises none.
\* Modelled: slicing a non-string url in the missing-id warning, and
\* urlparse() of a truthy non-string url.
NormalizeError(d) ==
    LET sid == Sid(d)
        urlw == GetOr(d, "url", PyStr(<<"u", "n", "k", "n", "o", "w", "n">>))
        url == Or(Get(d, "url"), PyStr(<<>>))
    IN  IF sid.t = "null" /\ urlw.t = "int"
        THEN <<"'","i","n","t","'"," ","o","b","j","e","c","t"," ","i","s"," ","n","o","t"," ","s","u","b","s","c","r","i","p","t","a","b","l","e">>
        ELSE IF sid.t = "null" /\ urlw.t = "null"
        THEN <<"'","N","o","n","e","T","y","p","e","'"," ","o","b","j","e","c","t"," ","i","s"," ","n","o","t"," ","s","u","b","s","c","r","i","p","t","a","b","l","e">>
        ELSE IF Truthy(url) /\ url.t # "str"
        THEN <<"'","i","n","t","'"," ","o","b","j","e","c","t"," ","h","a","s"," ","n","o"," ","a","t","t","r","i","b","u","t","e"," ","'","d","e","c","o","d","e","'">>
        ELSE <<>>

\* _coerce_timestamp, in milliseconds.  Payload timestamps are epoch seconds
\* below 10^12, so the milliseconds heuristic does not apply to them.
CoerceTimestamp(value, default_epoch) ==
    CASE value.t = "int" -> value.n * 1000
      [] value.t = "str" ->
            LET b == Strip(value.s)
            IN  IF b # <<>> /\ \A i \in 1..Len(b) : IsDigit(b[i])
                THEN DigitsNat(b) * 1000
                ELSE default_epoch
      [] OTHER -> default_epoch

\* the try block of normalize_session
NormalizeNormal(d, t) ==
    LET sid == Sid(d)
        url == Or(Get(d, "url"), PyStr(<<>>))
    IN  [id |-> IF sid.t = "null"
                THEN <<"m","i","s","s","i","n","g","-","i","d","-">> \o IntStr(t)
                ELSE sid.s,
         url |-> url,
         host |-> Or(Get(d, "host"), IF Truthy(url) THEN Hostname(url.s) ELSE PyStr(<<>>)),
         method |-> Or(Get(d, "method"), PyStr(<<>>)),
         statusCode |-> IntOrZero(Or(GetOr(d, "statusCode", GetOr(d, "status", PyInt(0))), PyInt(0))),
         contentLength |-> IntOrZero(Or(GetOr(d, "contentLength", GetOr(d, "body_length", PyInt(0))), PyInt(0))),
         received_at |-> CoerceTimestamp(Get(d, "received_at"), t),
         ekfiddleComments |-> Or(Get(d, "ekfiddleComments"), PyStr(<<>>)),
         ekfiddleFlags |-> Or(Get(d, "ekfiddleFlags"), PyStr(<<>>)),
         sessionFlags |-> Or(Get(d, "sessionFlags"), PyStr(<<>>))]

\* an except block that returns the minimal record without its note
NormalizeFallback_NoNote(d, t, err) ==
    LET sid == ErrorSid(d)
    IN  [id |-> IF sid.t = "null"
                THEN <<"e","r","r","o","r","-">> \o IntStr(t)
                ELSE sid.s,
         url |-> PyStr(StrOf(GetOr(d, "url", PyStr(<<>>)))),
         host |-> PyStr(StrOf(GetOr(d, "host", PyStr(<<>>)))),
         method |-> PyStr(StrOf(GetOr(d, "method", PyStr(<<"G", "E", "T">>)))),
         statusCode |-> 0,
         contentLength |-> 0,
         received_at |-> t,
         ekfiddleComments |-> PyStr(<<>>),
         ekfiddleFlags |-> PyStr(<<>>),
         sessionFlags |-> PyStr(<<>>)]

\* the except block of normalize_session
NormalizeFallback(d, t, err) ==
    LET sid == ErrorSid(d)
    IN  [id |-> IF sid.t = "null"
                THEN <<"e","r","r","o","r","-">> \o IntStr(t)
                ELSE sid.s,
         url |-> PyStr(StrOf(GetOr(d, "url", PyStr(<<>>)))),
         host |-> PyStr(StrOf(GetOr(d, "host", PyStr(<<>>)))),
         method |-> PyStr(StrOf(GetOr(d, "method", PyStr(<<"G", "E", "T">>)))),
         statusCode |-> 0,
         contentLength |-> 0,
         received_at |-> t,
         ekfiddleComments |->
             PyStr(<<"n","o","r","m","a","l","i","z","a","t","i","o","n","_","e","r","r","o","r",":"," ">> \o err),
         ekfiddleFlags |-> PyStr(<<>>),
         sessionFlags |-> PyStr(<<>>)]

\* normalize_session(d) at clock t
Normalize(d, t) ==
    IF NormalizeError(d) = <<>>
    THEN NormalizeNormal(d, t)
    ELSE NormalizeFallback(d, t, NormalizeError(d))

---------------------------------------------------------------------------
(* The bounded buffers *)

\* a full deque that refuses the new element instead of evicting the oldest
DequeAppend_KeepOldest(q, x, cap) ==
    IF Len(q) < cap THEN Append(q, x) ELSE q

\* deque(maxlen=cap).append(x)
DequeAppend(q, x, cap) ==
    IF Len(q) < cap THEN Append(q, x) ELSE Append(Tail(q), x)

\* (a or b or c or "").strip() of the three annotation fields: the value
\* before strip(); strip() raises on a value that is no string
Annotation(session) ==
    Or(Or(Or(session.ekfiddleComments, session.sessionFlags), session.ekfiddleFlags), PyStr(<<>>))

\* a retention test that looks at the annotation alone
IsImmediatelySuspicious_AnnotationOnly(session) ==
    LET a == Annotation(session)
    IN  a.t = "str" /\ Strip(a.s) # <<>>

\* is_immediately_suspicious
IsImmediatelySuspicious(session) ==
    LET a == Annotation(session)
    IN  IF a.t # "str" THEN FALSE        \* AttributeError caught: return False
        ELSE IF Strip(a.s) # <<>> THEN TRUE
        ELSE session.statusCode >= 400

\* a suspicious session routed to suspicious_sessions only
LiveAfterIngest_CleanOnly(q, x) ==
    IF IsImmediatelySuspicious(x.rec) THEN q ELSE DequeAppend(q, x, LiveMaxlen)

\* live_sessions after receive_session appended x
LiveAfterIngest(q, x) == DequeAppend(q, x, LiveMaxlen)

\* suspicious_sessions after receive_session handled x
SuspiciousAfterIngest(q, x) ==
    IF IsImmediatelySuspicious(x.rec) THEN DequeAppend(q, x, SuspiciousMaxlen) ELSE q

\* a clear that always empties suspicious_sessions
SuspiciousAfterClear_Always(q, clear_suspicious) == <<>>

\* suspicious_sessions after clear_sessions
SuspiciousAfterClear(q, clear_suspicious) == IF clear_suspicious THEN <<>> ELSE q

---------------------------------------------------------------------------
(* Payloads posted to /live-session *)

With(d, k, v) == [d EXCEPT ![k] = v]

s_http_a_x == <<"h","t","t","p",":","/","/","a",".","c","o","m","/","x">>
s_https_B_dl == <<"h","t","t","p","s",":","/","/","B",".","t","k","/","d","l",".","e","x","e">>
s_a_com == <<"a",".","c","o","m">>
s_b_tk == <<"b",".","t","k">>
s_GET == <<"G","E","T">>
s_POST == <<"P","O","S","T">>
s_high_eval == <<"H","i","g","h",":"," ","J","S"," ","F","u","n","c","t","i","o","n"," ","w","i","t","h"," ","E","v","a","l">>

\* an ordinary session: integer id, host taken from the url
RawPlain ==
    With(With(With(With(EmptyDict, "id", PyInt(101)), "url", PyStr(s_http_a_x)),
         "statusCode", PyInt(200)), "method", PyStr(s_GET))

\* a session carrying a threat annotation, its id under the second alias, and
\* a capture time earlier than the clock
RawAlert ==
    With(With(With(With(With(With(EmptyDict, "session_id", PyStr(<<"7">>)), "host", PyStr(s_b_tk)),
         "url", PyStr(s_https_B_dl)), "statusCode", PyInt(200)),
         "ekfiddleComments", PyStr(s_high_eval)), "received_at", PyInt(10))

\* an error response without any id alias, its status under the alias "status"
RawError ==
    With(With(With(EmptyDict, "host", PyStr(s_a_com)), "status", PyStr(<<"5","0","0">>)),
         "method", PyStr(s_POST))

\* a malformed session: null id, id under the third alias, a url that is no string
RawBadUrl ==
    With(With(With(EmptyDict, "id", None), "fiddler_session_id", PyInt(9)), "url", PyInt(5))

\* a download larger than 10^9 bytes, sharing RawPlain's id
RawHuge ==
    With(With(With(With(EmptyDict, "id", PyInt(101)), "host", PyStr(s_a_com)),
         "statusCode", PyInt(200)), "contentLength", PyInt(2000000000))

\* What was posted: a body that is no JSON, a non-empty JSON array, or a mapping.
InvalidJson == [kind |-> "invalid", d |-> EmptyDict]   \* get_json(silent=True) is None
JsonArray == [kind |-> "array", d |-> EmptyDict]       \* e.g. [1]

Mapping(d) == [kind |-> "mapping", d |-> d]

Payloads ==
    {InvalidJson, JsonArray, Mapping(EmptyDict), Mapping(RawPlain), Mapping(RawAlert),
     Mapping(RawError), Mapping(RawBadUrl)}

---------------------------------------------------------------------------
(* The handlers, each one atomic: every access to the buffers is made      *)
(* under session_lock.                                                     *)

NoResponse == [op |-> "none"]

Init ==
    /\ live_sessions = <<>>
    /\ suspicious_sessions = <<>>
    /\ now = StartTime
    /\ next_oid = 0
    /\ ingested = <<>>
    /\ last_clear = 0
    /\ response = NoResponse
    /\ args = <<>>
    /\ assessed = {}
    /\ session_lock = NoWorker
    /\ threads = [w \in Workers |-> Idle]

\* the clock advances
Tick ==
    /\ now < StartTime + MaxTicks
    /\ now' = now + 1
    /\ UNCHANGED <<store, response, args, assessed, threading>>

\* The way receive_session ends for payload p: "invalid_json" and
\* "empty_payload" are its two early returns, "ingest_failed" its except
\* block (normalize_session calls d.get() in its own except block, which raises
\* again on a payload that is no mapping), "stored" the normal path.
IngestOutcome_NoFallback(p) ==
    CASE p.kind = "invalid" -> "invalid_json"
      [] p.kind = "array" -> "ingest_failed"
      [] IsEmptyDict(p.d) -> "empty_payload"
      [] NormalizeError(p.d) # <<>> -> "ingest_failed"
      [] OTHER -> "stored"

IngestOutcome(p) ==
    CASE p.kind = "invalid" -> "invalid_json"
      [] p.kind = "array" -> "ingest_failed"
      [] IsEmptyDict(p.d) -> "empty_payload"
      [] OTHER -> "stored"

\* POST /live-session
ReceiveSession(p) ==
    LET outcome == IngestOutcome(p)
        sess == [oid |-> next_oid, rec |-> Normalize(p.d, now)]
    IN  IF outcome = "stored"
        THEN /\ live_sessions' = LiveAfterIngest(live_sessions, sess)
             /\ suspicious_sessions' = SuspiciousAfterIngest(suspicious_sessions, sess)
             /\ next_oid' = next_oid + 1
             /\ ingested' = Append(ingested, sess)
             /\ response' = [op |-> "receive_session", request |-> p, at |-> now, code |-> 201,
                             ok |-> TRUE, error |-> "", id |-> sess.rec.id]
             /\ UNCHANGED <<now, last_clear, args, assessed, threading>>
        ELSE /\ response' = [op |-> "receive_session", request |-> p, at |-> now,
                             code |-> IF outcome = "ingest_failed" THEN 500 ELSE 400,
                             ok |-> FALSE, error |-> outcome, id |-> <<>>]
             /\ UNCHANGED <<store, now, args, assessed, threading>>

\* POST /api/clear
ClearSessions(clear_suspicious) ==
    /\ live_sessions' = <<>>
    /\ suspicious_sessions' = SuspiciousAfterClear(suspicious_sessions, clear_suspicious)
    /\ ingested' = <<>>
    /\ last_clear' = next_oid
    /\ response' = [op |-> "clear_sessions", clear_suspicious |-> clear_suspicious,
                    sessions_cleared |-> Len(live_sessions),
                    suspicious_cleared |-> IF clear_suspicious THEN Len(suspicious_sessions) ELSE 0]
    /\ UNCHANGED <<now, next_oid, args, assessed, threading>>

Next ==
    \/ Tick
    \/ \E p \in Payloads : next_oid < MaxIngest /\ ReceiveSession(p)
    \/ \E cs \in BOOLEAN : ClearSessions(cs)

Spec == Init /\ [][Next]_vars

---------------------------------------------------------------------------
(* Properties *)

\* the last n elements of q
LastN(q, n) == IF Len(q) <= n THEN q ELSE SubSeq(q, Len(q) - n + 1, Len(q))

\* C1: the all-records buffer never holds more than its capacity, and it holds
\* exactly the most recently ingested records since the last clear, in
\* ingestion order (so each ingest into a full buffer evicts the oldest).
C1_BoundedMemory ==
    /\ Len(live_sessions) <= LiveMaxlen
    /\ live_sessions = LastN(ingested, LiveMaxlen)

\* more records than the capacity were ingested since the last clear
C1_Witness == Len(ingested) > LiveMaxlen /\ Len(live_sessions) = LiveMaxlen

\* q holds the dict object x
Holds(q, x) == \E i \in 1..Len(q) : q[i] = x

\* C2 as stated: every record present in the flagged buffer is also present
\* in the all-records buffer (every state of Spec is quiescent: the handlers
\* are atomic).
C2_FlaggedSubsetOfAll ==
    \A i \in 1..Len(suspicious_sessions) : Holds(live_sessions, suspicious_sessions[i])

\* C2 amended: a flagged record that was ingested after the last clear of the
\* all-records buffer and is among the LiveMaxlen most recently ingested
\* records is also present in the all-records buffer.
C2_FlaggedRecentInAll ==
    \A i \in 1..Len(suspicious_sessions) :
        LET x == suspicious_sessions[i]
        IN  (x.oid >= last_clear /\ x.oid >= next_oid - LiveMaxlen) => Holds(live_sessions, x)

\* a flagged record that is still held by the all-records buffer after the
\* buffer has evicted older records
C2_Witness ==
    /\ suspicious_sessions # <<>>
    /\ Holds(live_sessions, suspicious_sessions[Len(suspicious_sessions)])
    /\ Len(ingested) > LiveMaxlen

\* C4: a clear that does not request clearing the flagged buffer empties the
\* all-records buffer and leaves the flagged buffer as it was.
C4_ClearIsolation ==
    [][(response'.op = "clear_sessions" /\ ~response'.clear_suspicious /\ now' = now)
        => (live_sessions' = <<>> /\ suspicious_sessions' = suspicious_sessions)]_vars

\* a clear without clear_suspicious has emptied a non-empty all-records
\* buffer while the flagged buffer holds a record
C4_Witness ==
    /\ response.op = "clear_sessions"
    /\ ~response.clear_suspicious
    /\ response.sessions_cleared > 0
    /\ live_sessions = <<>>
    /\ suspicious_sessions # <<>>

\* C5 as stated: every ingest call with a raw mapping, the empty mapping
\* included, is answered 201 with the id of the record it stored.
C5_IngestAlwaysSucceeds ==
    (response.op = "receive_session" /\ response.request.kind = "mapping")
        => (response.code = 201 /\ response.ok)

\* C5 amended: every ingest call with a non-empty raw mapping appends the
\* normalized record to the all-records buffer and returns its id; the empty
\* mapping is answered 400 empty_payload.
C5_NonEmptyIngestSucceeds ==
    (response.op = "receive_session" /\ response.request.kind = "mapping")
        => IF IsEmptyDict(response.request.d)
           THEN response.code = 400 /\ response.error = "empty_payload"
           ELSE /\ response.code = 201 /\ response.ok
                /\ live_sessions # <<>>
                /\ live_sessions[Len(live_sessions)] =
                       [oid |-> next_oid - 1, rec |-> Normalize(response.request.d, response.at)]
                /\ ingested # <<>>
                /\ ingested[Len(ingested)].oid = next_oid - 1
                /\ Len(ingested) <= next_oid - last_clear
                /\ response.id = live_sessions[Len(live_sessions)].rec.id

\* a malformed mapping (normalized by the except block) was stored in a full buffer
C5_Witness ==
    /\ response.op = "receive_session"
    /\ response.code = 201
    /\ NormalizeError(response.request.d) # <<>>
    /\ Len(ingested) > LiveMaxlen

---------------------------------------------------------------------------
(* normalize_session as a function of its payload *)

s_a7 == <<"a", "7">>

NormalizeInputs ==
    {[EmptyDict EXCEPT !["id"] = i, !["session_id"] = j, !["fiddler_session_id"] = k,
                       !["url"] = u] :
        i \in {Absent, None, PyInt(0), PyInt(42), PyStr(<<>>), PyStr(s_a7)},
        j \in {Absent, None, PyInt(7), PyStr(<<"s">>)},
        k \in {Absent, None, PyInt(9)},
        u \in {Absent, None, PyStr(s_http_a_x), PyInt(5)}}

InitNormalize ==
    /\ live_sessions = <<>>
    /\ suspicious_sessions = <<>>
    /\ now = StartTime
    /\ next_oid = 0
    /\ ingested = <<>>
    /\ last_clear = 0
    /\ response = NoResponse
    /\ args \in NormalizeInputs
    /\ assessed = {}
    /\ session_lock = NoWorker
    /\ threads = [w \in Workers |-> Idle]

\* sess = self.normalize_session(data)
CallNormalize ==
    /\ response = NoResponse
    /\ response' = [op |-> "normalize_session",
                    path |-> IF NormalizeError(args) = <<>> THEN "try" ELSE "except",
                    rec |-> Normalize(args, now)]
    /\ UNCHANGED <<store, now, args, assessed, threading>>

SpecNormalize == InitNormalize /\ [][CallNormalize]_vars

\* the payload's value under its first id alias that is present and not null
\* (a sequence of at most one value)
SuppliedId(d) ==
    IF d["id"].t \notin {"absent", "null"} THEN <<d["id"]>>
    ELSE IF d["session_id"].t \notin {"absent", "null"} THEN <<d["session_id"]>>
    ELSE IF d["fiddler_session_id"].t \notin {"absent", "null"} THEN <<d["fiddler_session_id"]>>
    ELSE <<>>

IsSynthetic(id) ==
    \/ StartsWith(id, <<"m","i","s","s","i","n","g","-","i","d","-">>)
    \/ StartsWith(id, <<"e","r","r","o","r","-">>)

\* C6: when the payload carries a non-null value under an id alias, the
\* normalized id is the string form of the first such value in the order id,
\* session_id, fiddler_session_id, on the try path and on the except path; a
\* synthetic id is produced only when no alias holds a non-null value.
C6_IdPreserved ==
    response.op = "normalize_session" =>
        LET supplied == SuppliedId(args)
        IN  IF supplied # <<>>
            THEN /\ supplied[1].t = "str" => response.rec.id = supplied[1].s
                 /\ supplied[1].t = "int" => response.rec.id = IntStr(supplied[1].n)
                 /\ ~IsSynthetic(response.rec.id)
            ELSE IsSynthetic(response.rec.id)

\* the except path recovered an id held under the third alias only
C6_Witness ==
    /\ response.op = "normalize_session"
    /\ response.path = "except"
    /\ args["id"].t = "null"
    /\ args["session_id"].t = "absent"
    /\ args["fiddler_session_id"] = PyInt(9)
    /\ response.rec.id = <<"9">>

s_normalization_error ==
    <<"n","o","r","m","a","l","i","z","a","t","i","o","n","_","e","r","r","o","r",":"," ">>

\* C13: when a step of the try block fails, normalize_session returns a
\* minimal well-formed record: its id is the string form of the first id
\* alias present and not null (a synthetic id when there is none), its url,
\* host, method and annotations are strings, its status and length are 0, and
\* its annotation is the diagnostic note "normalization_error: ..." with
\* the text of the exception.
C13_FallbackWellFormed ==
    (response.op = "normalize_session" /\ response.path = "except")
        => LET rec == response.rec
               supplied == SuppliedId(args)
           IN  /\ IF supplied = <<>> THEN rec.id = <<"e","r","r","o","r","-">> \o IntStr(now)
                  ELSE rec.id = StrOf(supplied[1])
               /\ rec.url.t = "str" /\ rec.host.t = "str" /\ rec.method.t = "str"
               /\ rec.statusCode = 0 /\ rec.contentLength = 0 /\ rec.received_at = now
               /\ rec.ekfiddleComments.t = "str"
               /\ StartsWith(rec.ekfiddleComments.s, s_normalization_error)
               /\ Len(rec.ekfiddleComments.s) > Len(s_normalization_error)
               /\ rec.ekfiddleFlags = PyStr(<<>>) /\ rec.sessionFlags = PyStr(<<>>)

\* the try block failed on a url that is a number, in a payload whose id is
\* a string: the record keeps the id and holds the url as the string "5"
C13_Witness ==
    /\ response.op = "normalize_session" /\ response.path = "except"
    /\ args["url"] = PyInt(5) /\ args["id"] = PyStr(s_a7)
    /\ response.rec.id = s_a7
    /\ response.rec.url = PyStr(<<"5">>)

---------------------------------------------------------------------------
(* _quick_risk_assessment.  Scores are in hundredths: 85 is 0.85. *)

MalwareTerms ==
    {<<"e","x","p","l","o","i","t">>,
     <<"m","a","l","w","a","r","e">>,
     <<"t","r","o","j","a","n">>,
     <<"b","a","c","k","d","o","o","r">>,
     <<"r","a","n","s","o","m","w","a","r","e">>}

PhishingTerms ==
    {<<"p","h","i","s","h","i","n","g">>,
     <<"c","r","e","d","e","n","t","i","a","l">>,
     <<"s","o","c","g","h","o","l","i","s","h">>,
     <<"f","a","k","e"," ","u","p","d","a","t","e">>}

GenericTerms ==
    {<<"s","u","s","p","i","c","i","o","u","s">>,
     <<"o","b","f","u","s","c","a","t","e","d">>,
     <<"e","n","c","o","d","e","d">>,
     <<"e","v","a","l">>}

s_critical == <<"c","r","i","t","i","c","a","l">>

s_high == <<"h","i","g","h">>

s_medium == <<"m","e","d","i","u","m">>

s_low == <<"l","o","w">>

s_EKFiddle == <<"E","K","F","i","d","d","l","e",":"," ">>

s_http_error == <<"H","T","T","P"," ","e","r","r","o","r"," ","s","t","a","t","u","s"," ">>

s_informational == <<" ","(","i","n","f","o","r","m","a","t","i","o","n","a","l"," ","o","n","l","y",")">>

s_low_enc == <<"L","o","w",":"," ","e","n","c","o","d","e","d"," ","p","a","y","l","o","a","d">>

s_crit_phish == <<"C","r","i","t","i","c","a","l",":"," ","p","h","i","s","h","i","n","g"," ","k","i","t">>

s_com == <<"c","o","m">>

UpperLetters == {"A", "B", "C", "D", "E", "F", "G", "H", "I", "J", "K", "L", "M",
                 "N", "O", "P", "Q", "R", "S", "T", "U", "V", "W", "X", "Y", "Z"}

UpperChar(c) ==
    IF c \in LowerLetters THEN CHOOSE u \in UpperLetters : LowerChar(u) = c ELSE c

\* s.upper()
Upper(s) == [i \in 1..Len(s) |-> UpperChar(s[i])]

\* any(pattern in text for pattern in terms)
AnyIn(terms, text) == \E term \in terms : Contains(term, text)

\* startswith(token + ":") or token in text[:20]
LeadingToken(token, text) ==
    StartsWith(text, token \o <<":">>) \/ Contains(token, Take(text, 20))

\* an assessment that takes an annotation for an alert only when it names a
\* severity
AnnotatedAssessment_TokenRequired(ekfiddle) ==
    LET lower == Lower(ekfiddle)
    IN  IF \E token \in {s_critical, s_high, s_medium, s_low} : LeadingToken(token, lower)
        THEN [raised |-> FALSE, score |-> 50, level |-> "MEDIUM",
              flag |-> "ekfiddle_alert", reasons |-> <<s_EKFiddle \o ekfiddle>>]
        ELSE [raised |-> FALSE, score |-> 0, level |-> "LOW", flag |-> "", reasons |-> <<>>]

\* the branch taken when the annotation is not empty
AnnotatedAssessment(ekfiddle) ==
    LET lower == Lower(ekfiddle)
        base == IF LeadingToken(s_critical, lower) THEN [score |-> 100, level |-> "CRITICAL"]
                ELSE IF LeadingToken(s_high, lower) THEN [score |-> 85, level |-> "HIGH"]
                ELSE IF LeadingToken(s_medium, lower) THEN [score |-> 65, level |-> "MEDIUM"]
                ELSE IF LeadingToken(s_low, lower) THEN [score |-> 40, level |-> "MEDIUM"]
                ELSE [score |-> 50, level |-> "MEDIUM"]
        final == IF AnyIn(MalwareTerms, lower)
                 THEN [score |-> Max(base.score, 100), level |-> "CRITICAL"]
                 ELSE IF AnyIn(PhishingTerms, lower)
                 THEN [score |-> Max(base.score, 85), level |-> "HIGH"]
                 ELSE IF AnyIn(GenericTerms, lower)
                 THEN [score |-> Max(base.score, 65),
                       level |-> IF base.level = "MEDIUM" /\ Contains(s_high, Take(lower, 20))
                                 THEN "HIGH" ELSE base.level]
                 ELSE base
    IN  [raised |-> FALSE, score |-> final.score, level |-> final.level,
         flag |-> "ekfiddle_alert", reasons |-> <<s_EKFiddle \o ekfiddle>>]

\* an assessment that treats an error status as stale once the clock has
\* moved past the session's receipt
QuickRiskAssessment_Aging(session) ==
    LET a == Annotation(session)
    IN  IF a.t # "str"
        THEN [raised |-> TRUE, score |-> 0, level |-> "", flag |-> "", reasons |-> <<>>]
        ELSE IF Strip(a.s) # <<>> THEN AnnotatedAssessment(Strip(a.s))
        ELSE IF session.statusCode >= 400 /\ now <= session.received_at
        THEN [raised |-> FALSE, score |-> 0, level |-> "LOW", flag |-> "error_status",
              reasons |-> <<s_http_error \o IntStr(session.statusCode) \o s_informational>>]
        ELSE [raised |-> FALSE, score |-> 0, level |-> "LOW", flag |-> "", reasons |-> <<>>]

\* an assessment that takes an error status for a threat of its own
QuickRiskAssessment_StatusEscalates(session) ==
    LET a == Annotation(session)
    IN  IF a.t # "str"
        THEN [raised |-> TRUE, score |-> 0, level |-> "", flag |-> "", reasons |-> <<>>]
        ELSE IF Strip(a.s) # <<>> THEN AnnotatedAssessment(Strip(a.s))
        ELSE IF session.statusCode >= 400
        THEN [raised |-> FALSE, score |-> 40, level |-> "MEDIUM", flag |-> "error_status",
              reasons |-> <<s_http_error \o IntStr(session.statusCode) \o s_informational>>]
        ELSE [raised |-> FALSE, score |-> 0, level |-> "LOW", flag |-> "", reasons |-> <<>>]

\* an assessment that flags nothing without an annotation
QuickRiskAssessment_NoErrorFlag(session) ==
    LET a == Annotation(session)
    IN  IF a.t # "str"
        THEN [raised |-> TRUE, score |-> 0, level |-> "", flag |-> "", reasons |-> <<>>]
        ELSE IF Strip(a.s) # <<>> THEN AnnotatedAssessment(Strip(a.s))
        ELSE IF session.statusCode >= 400
        THEN [raised |-> FALSE, score |-> 0, level |-> "LOW", flag |-> "",
              reasons |-> <<s_http_error \o IntStr(session.statusCode) \o s_informational>>]
        ELSE [raised |-> FALSE, score |-> 0, level |-> "LOW", flag |-> "", reasons |-> <<>>]

\* _quick_risk_assessment(session); raised: .strip() of an annotation that is
\* no string raises AttributeError; flag "" stands for None
QuickRiskAssessment(session) ==
    LET a == Annotation(session)
    IN  IF a.t # "str"
        THEN [raised |-> TRUE, score |-> 0, level |-> "", flag |-> "", reasons |-> <<>>]
        ELSE IF Strip(a.s) # <<>> THEN AnnotatedAssessment(Strip(a.s))
        ELSE IF session.statusCode >= 400
        THEN [raised |-> FALSE, score |-> 0, level |-> "LOW", flag |-> "error_status",
              reasons |-> <<s_http_error \o IntStr(session.statusCode) \o s_informational>>]
        ELSE [raised |-> FALSE, score |-> 0, level |-> "LOW", flag |-> "", reasons |-> <<>>]

\* _format_session_overview of the stored session x
FormatSessionOverview(x) ==
    LET assessment == QuickRiskAssessment(x.rec)
    IN  [oid |-> x.oid, id |-> x.rec.id, host |-> x.rec.host, statusCode |-> x.rec.statusCode,
         size |-> x.rec.contentLength, received_at |-> x.rec.received_at,
         risk_flag |-> assessment.flag, risk_score |-> assessment.score,
         risk_level |-> assessment.level]

\* what a handler computes for the sessions it classifies, as
\* <<oid, assessment, time of the call>>
Assessments(sessions) ==
    {<<sessions[i].oid, QuickRiskAssessment(sessions[i].rec), now>> : i \in 1..Len(sessions)}

---------------------------------------------------------------------------
(* The two classifiers applied to stored records of every shape *)

s_blank == <<" ", " ">>

\* the fields of a stored session the classifiers read
ClassifyInputs ==
    {[statusCode |-> st, ekfiddleComments |-> c, sessionFlags |-> f, ekfiddleFlags |-> PyStr(<<>>)] :
        st \in {0, 200, 399, 400, 500},
        c \in {PyStr(<<>>), PyStr(s_blank), PyStr(s_high_eval), PyStr(s_low_enc),
               PyStr(s_crit_phish), PyInt(5)},
        f \in {PyStr(<<>>), PyStr(s_low_enc)}}

InitClassify ==
    /\ live_sessions = <<>>
    /\ suspicious_sessions = <<>>
    /\ now = StartTime
    /\ next_oid = 0
    /\ ingested = <<>>
    /\ last_clear = 0
    /\ response = NoResponse
    /\ args \in ClassifyInputs
    /\ assessed = {}
    /\ session_lock = NoWorker
    /\ threads = [w \in Workers |-> Idle]

\* assessment = self._quick_risk_assessment(session), and the retention test
\* self.is_immediately_suspicious(session), on the same session
CallClassify ==
    /\ response = NoResponse
    /\ response' = [op |-> "quick_risk_assessment",
                    assessment |-> QuickRiskAssessment(args),
                    suspicious |-> IsImmediatelySuspicious(args)]
    /\ UNCHANGED <<store, now, args, assessed, threading>>

SpecClassify == InitClassify /\ [][CallClassify]_vars

\* the session carries no threat annotation: the three fields are strings
\* and nothing is left of the first non-empty one after strip()
NoAnnotation(session) ==
    Annotation(session).t = "str" /\ Strip(Annotation(session).s) = <<>>

\* C11: a record with no threat annotation is assessed with score 0.0 and
\* level LOW whatever its status code; a status >= 400 adds one
\* informational reason and nothing to the score.
C11_StatusAloneNoEscalation ==
    (response.op = "quick_risk_assessment" /\ NoAnnotation(args))
        => /\ ~response.assessment.raised
           /\ response.assessment.score = 0
           /\ response.assessment.level = "LOW"
           /\ response.assessment.reasons =
                  IF args.statusCode >= 400
                  THEN <<s_http_error \o IntStr(args.statusCode) \o s_informational>>
                  ELSE <<>>

\* a record without annotation and with status 500 has been assessed
C11_Witness ==
    /\ response.op = "quick_risk_assessment" /\ NoAnnotation(args)
    /\ args.statusCode = 500
    /\ Len(response.assessment.reasons) = 1

\* C24 as stated: for every record with no threat annotation the flag of the
\* assessment is empty, whatever the status code.
C24_FlagEmptyWithoutAnnotation ==
    (response.op = "quick_risk_assessment" /\ NoAnnotation(args))
        => response.assessment.flag = ""

\* C24: for every record with no threat annotation the flag is empty when
\* the status is below 400 and "error_status" when it is 400 or more; the
\* score is 0.0 and the level LOW in both cases.
C24_FlagOnlyForErrorStatus ==
    (response.op = "quick_risk_assessment" /\ NoAnnotation(args))
        => /\ response.assessment.flag
                  = IF args.statusCode >= 400 THEN "error_status" ELSE ""
           /\ response.assessment.score = 0
           /\ response.assessment.level = "LOW"

\* a record without annotation and with status 400 carries the flag
\* "error_status"; its blank annotation does not count
C24_Witness ==
    /\ response.op = "quick_risk_assessment" /\ NoAnnotation(args)
    /\ args.statusCode = 400 /\ args.ekfiddleComments = PyStr(s_blank)
    /\ response.assessment.flag = "error_status"

---------------------------------------------------------------------------
(* The list, search and detail endpoints *)

MaxQueryIngest == 2    \* stored sessions per behaviour of SpecQuery

\* reversed(q)
Reverse(q) == [i \in 1..Len(q) |-> q[Len(q) + 1 - i]]

\* an unstable sort: x is moved in front of the elements whose key equals x's
InsertByReceivedAt_Unstable(sorted, x) ==
    LET k == Cardinality({i \in 1..Len(sorted) : sorted[i].rec.received_at < x.rec.received_at})
    IN  SubSeq(sorted, 1, k) \o <<x>> \o SubSeq(sorted, k + 1, Len(sorted))

\* sorted + [x] with x moved behind the last element whose key is <= x's key
InsertByReceivedAt(sorted, x) ==
    LET k == Cardinality({i \in 1..Len(sorted) : sorted[i].rec.received_at <= x.rec.received_at})
    IN  SubSeq(sorted, 1, k) \o <<x>> \o SubSeq(sorted, k + 1, Len(sorted))

RECURSIVE SortByReceivedAt(_)
\* filtered_sessions.sort(key=lambda s: s.get('received_at', 0)), a stable sort
SortByReceivedAt(q) ==
    IF q = <<>> THEN <<>>
    ELSE InsertByReceivedAt(SortByReceivedAt(SubSeq(q, 1, Len(q) - 1)), q[Len(q)])

\* the test of _filter_sessions on one session; cutoff is None or the epoch
ListKeeps(session, host_filter, status_filter, cutoff) ==
    /\ ~(Truthy(cutoff) /\ session.received_at < cutoff.n)
    /\ ~(Truthy(host_filter) /\ ~Contains(Lower(host_filter.s), Lower(session.host.s)))
    /\ ~(Truthy(status_filter) /\ IntStr(session.statusCode) # status_filter.s)

\* _filter_sessions raises: .lower() of a host that is no string
ListRaises(sessions, host_filter, cutoff) ==
    /\ Truthy(host_filter)
    /\ \E i \in 1..Len(sessions) :
           /\ ~(Truthy(cutoff) /\ sessions[i].rec.received_at < cutoff.n)
           /\ sessions[i].rec.host.t # "str"

\* _filter_sessions
FilterSessions(sessions, host_filter, status_filter, cutoff) ==
    LET Keep(x) == ListKeeps(x.rec, host_filter, status_filter, cutoff)
    IN  SelectSeq(sessions, Keep)

\* since_minutes capped at 360
CapSince(since_minutes) ==
    IF Truthy(since_minutes) /\ since_minutes.n > 360 THEN PyInt(360) ELSE since_minutes

\* time.time() - since_minutes * 60 if since_minutes else None
Cutoff(since_minutes, t) ==
    IF Truthy(since_minutes) THEN PyInt(t - since_minutes.n * 60 * 1000) ELSE None

ListQueries ==
    {[limit |-> l, suspicious_only |-> FALSE, host_filter |-> h, status |-> st,
      since_minutes |-> sm] :
        l \in {1, 50}, h \in {None, PyStr(<<"A",".","c","o","m">>)},
        st \in {None, PyStr(<<"2","0","0">>)}, sm \in {None, PyInt(1)}}
    \cup {[limit |-> 50, suspicious_only |-> TRUE, host_filter |-> None, status |-> None,
           since_minutes |-> None]}

\* _collect_session_statistics: suspicious_count (the counters of hosts and
\* status codes are built by the same loop and are not modelled)
CollectSessionStatistics(formatted_sessions) ==
    [suspicious_count |-> Cardinality({i \in 1..Len(formatted_sessions) :
                                          formatted_sessions[i].risk_flag # ""})]

\* GET /api/sessions
GetSessions(q) ==
    LET limit == Max(1, Min(q.limit, 500))
        cutoff == Cutoff(CapSince(q.since_minutes), now)
        base_sessions == IF q.suspicious_only THEN suspicious_sessions ELSE live_sessions
        raises == ListRaises(base_sessions, q.host_filter, cutoff)
        filtered == SortByReceivedAt(FilterSessions(base_sessions, q.host_filter, q.status, cutoff))
        formatted == [i \in 1..Len(filtered) |-> FormatSessionOverview(filtered[i])]
    IN  /\ IF raises \/ \E i \in 1..Len(filtered) : QuickRiskAssessment(filtered[i].rec).raised
           THEN response' = [op |-> "get_sessions", query |-> q, code |-> 500]
           ELSE response' = [op |-> "get_sessions", query |-> q, code |-> 200,
                             sessions |-> Reverse(LastN(formatted, limit)),
                             returned_count |-> Len(LastN(formatted, limit)),
                             matched_count |-> Len(formatted),
                             statistics |-> CollectSessionStatistics(formatted),
                             total_live |-> Len(base_sessions)]
        /\ UNCHANGED <<store, now, args, assessed, threading>>

\* re.compile(pat, re.I) succeeds.  Patterns are literal words, or "(",
\* which is no regular expression.
RegexCompiles(pat) == pat # <<"(">>

\* rx.search(text) for a literal pattern compiled with re.I
RegexSearch(pat, text) == Contains(Lower(pat), Lower(text))

\* int(q.get(name) or default)
IntArg(v, default) == IF Truthy(v) THEN v.n ELSE default

\* the filter chain of search_sessions on one session; the url pattern and
\* the content-type group are not modelled (never supplied)
SearchKeeps(session, q, cutoff) ==
    LET url == Or(session.url, PyStr(<<>>))
        host0 == Or(session.host, PyStr(<<>>))
        host == IF ~Truthy(host0) /\ Truthy(url)
                THEN Or(Hostname(url.s), PyStr(<<>>)) ELSE host0
        meth == Upper(Or(session.method, PyStr(<<>>)).s)
        code == session.statusCode
        size == session.contentLength
    IN  /\ ~(cutoff.t = "int" /\ session.received_at < cutoff.n)
        /\ ~(q.host # <<>> /\ ~RegexSearch(q.host, host.s))
        /\ ~(Upper(q.method) # <<>> /\ meth # Upper(q.method))
        /\ IntArg(q.status_min, 0) <= code /\ code <= IntArg(q.status_max, 999)
        /\ IntArg(q.min_size, 0) <= size /\ size <= IntArg(q.max_size, 1000000000)

SearchQueries ==
    {[host |-> h, method |-> m, status_min |-> r[1], status_max |-> r[2], min_size |-> None,
      max_size |-> None, limit |-> l, since_minutes |-> None] :
        h \in {<<>>, s_com}, m \in {<<>>, <<"g","e","t">>},
        r \in {<<None, None>>, <<PyInt(400), PyInt(599)>>}, l \in {1, 50}}
    \cup {[host |-> <<"(">>, method |-> <<>>, status_min |-> None, status_max |-> None,
           min_size |-> None, max_size |-> None, limit |-> 50, since_minutes |-> None]}

\* GET /api/sessions/search
SearchSessions(q) ==
    LET limit == Max(1, Min(q.limit, 500))
        cutoff == Cutoff(CapSince(q.since_minutes), now)
        Keep(x) == SearchKeeps(x.rec, q, cutoff)
        matching == SelectSeq(Reverse(live_sessions), Keep)
        out == SubSeq(matching, 1, Min(limit, Len(matching)))   \* break at len(out) >= limit
    IN  /\ IF ~RegexCompiles(q.host) \/ \E i \in 1..Len(out) : QuickRiskAssessment(out[i].rec).raised
           THEN response' = [op |-> "search_sessions", query |-> q, code |-> 200,
                             success |-> FALSE, total_matched |-> 0, sessions |-> <<>>,
                             error |-> IF ~RegexCompiles(q.host) THEN "re.error"
                                       ELSE "AttributeError"]
           ELSE response' = [op |-> "search_sessions", query |-> q, code |-> 200,
                             success |-> TRUE, total_matched |-> Len(out),
                             sessions |-> [i \in 1..Len(out) |-> FormatSessionOverview(out[i])]]
        /\ UNCHANGED <<store, now, args, assessed, threading>>

\* for session in reversed(self.live_sessions): if str(session.get('id', '')) == str(session_id)
FindLatestById(q, session_id) ==
    LET hits == {i \in 1..Len(q) : q[i].rec.id = session_id}
    IN  IF hits = {} THEN <<>> ELSE <<q[CHOOSE i \in hits : \A j \in hits : i >= j]>>

\* GET /api/session/<session_id>
GetSessionDetails(session_id) ==
    LET found == FindLatestById(live_sessions, session_id)
    IN  /\ IF found = <<>>
           THEN /\ response' = [op |-> "get_session_details", session_id |-> session_id,
                                code |-> 404, found |-> FALSE]
                /\ assessed' = assessed
           ELSE IF QuickRiskAssessment(found[1].rec).raised
           THEN /\ response' = [op |-> "get_session_details", session_id |-> session_id,
                                code |-> 500, found |-> FALSE]
                /\ assessed' = assessed
           ELSE /\ response' = [op |-> "get_session_details", session_id |-> session_id,
                                code |-> 200, found |-> TRUE,
                                session |-> found[1],
                                analysis |-> QuickRiskAssessment(found[1].rec)]
                /\ assessed' = assessed \cup Assessments(found)
        /\ UNCHANGED <<store, now, args, threading>>

\* GET /api/sessions/headers/<session_id>; session is the record the answer
\* is built from
GetSessionHeaders(session_id) ==
    LET found == FindLatestById(live_sessions, session_id)
    IN  /\ IF found = <<>>
           THEN response' = [op |-> "get_session_headers", session_id |-> session_id,
                             code |-> 404, found |-> FALSE]
           ELSE response' = [op |-> "get_session_headers", session_id |-> session_id,
                             code |-> 200, found |-> TRUE, session |-> found[1]]
        /\ UNCHANGED <<store, now, args, assessed, threading>>

\* GET /api/sessions/body/<session_id>
GetSessionBody(session_id) ==
    LET found == FindLatestById(live_sessions, session_id)
    IN  /\ IF found = <<>>
           THEN response' = [op |-> "get_session_body", session_id |-> session_id,
                             code |-> 200, found |-> FALSE]
           ELSE response' = [op |-> "get_session_body", session_id |-> session_id,
                             code |-> 200, found |-> TRUE, session |-> found[1],
                             content_length |-> found[1].rec.contentLength]
        /\ UNCHANGED <<store, now, args, assessed, threading>>

\* for s in self.live_sessions: if str(s.get('id', '')) == str(session_id) or
\* str(s.get('bridge_id', '')) == str(session_id): session = s; break
\* (no stored record has a bridge_id, and no route delivers an empty id)
FindFirstById(q, session_id) ==
    LET hits == {i \in 1..Len(q) : q[i].rec.id = session_id}
    IN  IF hits = {} THEN <<>> ELSE <<q[CHOOSE i \in hits : \A j \in hits : i <= j]>>

\* GET /api/sessions/ekfiddle/<session_id>; session is raw_session
GetSessionEkfiddle(session_id) ==
    LET found == FindFirstById(live_sessions, session_id)
    IN  /\ IF found = <<>>
           THEN response' = [op |-> "get_session_ekfiddle", session_id |-> session_id,
                             code |-> 404, found |-> FALSE]
           ELSE response' = [op |-> "get_session_ekfiddle", session_id |-> session_id,
                             code |-> 200, found |-> TRUE, session |-> found[1],
                             ekfiddle_comments |-> found[1].rec.ekfiddleComments]
        /\ UNCHANGED <<store, now, args, assessed, threading>>

QueryPayloads == {Mapping(RawPlain), Mapping(RawAlert), Mapping(RawError), Mapping(RawHuge)}

NextQuery ==
    \/ \E p \in QueryPayloads : next_oid < MaxQueryIngest /\ ReceiveSession(p)
    \/ \E q \in ListQueries : GetSessions(q)
    \/ \E q \in SearchQueries : SearchSessions(q)

SpecQuery == Init /\ [][NextQuery]_vars

\* the response in hand is a list response built with no filter supplied
NoFilterList ==
    /\ response.op = "get_sessions" /\ response.code = 200
    /\ ~response.query.suspicious_only
    /\ response.query.host_filter = None /\ response.query.status = None
    /\ response.query.since_minutes = None

\* the response in hand is a search response built with no filter supplied
NoFilterSearch ==
    /\ response.op = "search_sessions" /\ response.success
    /\ response.query.host = <<>> /\ response.query.method = <<>>
    /\ response.query.status_min = None /\ response.query.status_max = None
    /\ response.query.min_size = None /\ response.query.max_size = None
    /\ response.query.since_minutes = None

\* later ingested first: object identities grow with ingestion
ReverseIngestionOrder(sessions) ==
    \A i, j \in 1..Len(sessions) : i < j => sessions[i].oid > sessions[j].oid

\* later received_at first, and among equal received_at later ingested first
NewestReceivedFirst(sessions) ==
    \A i, j \in 1..Len(sessions) : i < j =>
        \/ sessions[i].received_at > sessions[j].received_at
        \/ /\ sessions[i].received_at = sessions[j].received_at
           /\ sessions[i].oid > sessions[j].oid

\* C7 as stated: with no filters both the list endpoint and the search
\* endpoint return the records in reverse ingestion order, whatever
\* received_at the records carry.
C7_ReverseIngestionOrder ==
    (NoFilterList \/ NoFilterSearch) => ReverseIngestionOrder(response.sessions)

\* C7, amended: the search endpoint returns the records in reverse ingestion
\* order; the list endpoint returns them by descending received_at, records
\* of equal received_at newest-ingested first (so in reverse ingestion order
\* whenever received_at does not decrease along the buffer).
C7_NewestFirst ==
    /\ (response.op = "search_sessions" /\ response.success)
           => ReverseIngestionOrder(response.sessions)
    /\ (response.op = "get_sessions" /\ response.code = 200)
           => NewestReceivedFirst(response.sessions)

\* an unfiltered list of two records that carry the same received_at
C7_Witness ==
    /\ NoFilterList /\ Len(response.sessions) = 2
    /\ response.sessions[1].received_at = response.sessions[2].received_at
    /\ response.sessions[1].oid > response.sessions[2].oid

\* the stored session a returned overview was formatted from
Stored(oid) == CHOOSE x \in {live_sessions[i] : i \in 1..Len(live_sessions)} : x.oid = oid

\* the session satisfies every filter the search query supplies
SuppliedSearchFiltersHold(session, q) ==
    /\ q.host # <<>> => RegexSearch(q.host, session.host.s)
    /\ q.method # <<>> => Upper(session.method.s) = Upper(q.method)
    /\ q.status_min # None => q.status_min.n <= session.statusCode
    /\ q.status_max # None => session.statusCode <= q.status_max.n
    /\ q.min_size # None => q.min_size.n <= session.contentLength
    /\ q.max_size # None => session.contentLength <= q.max_size.n
    /\ q.since_minutes # None =>
           session.received_at >= Cutoff(CapSince(q.since_minutes), now).n

\* the session satisfies every filter the list query supplies
SuppliedListFiltersHold(session, q) ==
    /\ q.host_filter # None => Contains(Lower(q.host_filter.s), Lower(session.host.s))
    /\ q.status # None => IntStr(session.statusCode) = q.status.s
    /\ q.since_minutes # None =>
           session.received_at >= Cutoff(CapSince(q.since_minutes), now).n

\* C8 as stated: a record is returned only if it satisfies every supplied
\* filter, and every record of the snapshot that satisfies all supplied
\* filters is eligible: it is returned when the limit leaves room for it.
C8_AndCombinedAndComplete ==
    /\ (response.op = "search_sessions" /\ response.success) =>
           /\ \A i \in 1..Len(response.sessions) :
                  SuppliedSearchFiltersHold(Stored(response.sessions[i].oid).rec, response.query)
           /\ \A k \in 1..Len(live_sessions) :
                  (/\ SuppliedSearchFiltersHold(live_sessions[k].rec, response.query)
                   /\ Len(response.sessions) < response.query.limit)
                  => \E i \in 1..Len(response.sessions) :
                         response.sessions[i].oid = live_sessions[k].oid
    /\ (response.op = "get_sessions" /\ response.code = 200 /\ ~response.query.suspicious_only) =>
           /\ \A i \in 1..Len(response.sessions) :
                  SuppliedListFiltersHold(Stored(response.sessions[i].oid).rec, response.query)
           /\ \A k \in 1..Len(live_sessions) :
                  (/\ SuppliedListFiltersHold(live_sessions[k].rec, response.query)
                   /\ Len(response.sessions) < response.query.limit)
                  => \E i \in 1..Len(response.sessions) :
                         response.sessions[i].oid = live_sessions[k].oid

\* C8, the part that holds: every returned record satisfies every supplied
\* filter, on both endpoints
C8_AndCombined ==
    /\ (response.op = "search_sessions" /\ response.success) =>
           \A i \in 1..Len(response.sessions) :
               SuppliedSearchFiltersHold(Stored(response.sessions[i].oid).rec, response.query)
    /\ (response.op = "get_sessions" /\ response.code = 200 /\ ~response.query.suspicious_only) =>
           \A i \in 1..Len(response.sessions) :
               SuppliedListFiltersHold(Stored(response.sessions[i].oid).rec, response.query)

\* a search that supplies host and status range [400,599] has left out a
\* stored record whose host matches and whose status is 200
C8_Witness ==
    /\ response.op = "search_sessions" /\ response.success
    /\ response.query.host = s_com /\ response.query.status_min = PyInt(400)
    /\ \E k \in 1..Len(live_sessions) :
           /\ live_sessions[k].rec.statusCode = 200
           /\ RegexSearch(s_com, live_sessions[k].rec.host.s)
           /\ \A i \in 1..Len(response.sessions) :
                  response.sessions[i].oid # live_sessions[k].oid

\* the records of the buffer a list request reads that pass its filters
ListMatches(q) ==
    FilterSessions(IF q.suspicious_only THEN suspicious_sessions ELSE live_sessions,
                   q.host_filter, q.status, Cutoff(CapSince(q.since_minutes), now))

\* the records of live_sessions that pass the filters of a search request
SearchMatches(q) ==
    LET Keep(x) == SearchKeeps(x.rec, q, Cutoff(CapSince(q.since_minutes), now))
    IN  SelectSeq(live_sessions, Keep)

\* max(1, min(int(limit), 500))
EffectiveLimit(q) == Max(1, Min(q.limit, 500))

\* the list response in hand counts all the records that pass its filters
ListCountsAllMatches ==
    (response.op = "get_sessions" /\ response.code = 200)
        => LET all == ListMatches(response.query)
           IN  /\ response.matched_count = Len(all)
               /\ response.statistics.suspicious_count
                      = Cardinality({i \in 1..Len(all) : QuickRiskAssessment(all[i].rec).flag # ""})
               /\ response.returned_count = Len(response.sessions)
               /\ response.returned_count <= EffectiveLimit(response.query)

\* C16: the total-matched count (and the statistics) of a list or search
\* response is taken over all the records of the buffer that pass the filters,
\* whatever the limit, and the returned records are at most the limit.  No
\* request changes a buffer and every request replaces the response, so the
\* buffers are those the request in hand has read.
C16_TotalOverAllMatches ==
    /\ ListCountsAllMatches
    /\ (response.op = "search_sessions" /\ response.success)
           => /\ response.total_matched = Len(SearchMatches(response.query))
              /\ Len(response.sessions) <= EffectiveLimit(response.query)

\* what the code does: the list endpoint counts all matches, the search
\* endpoint counts the records it returns
C16_SearchCountsReturned ==
    /\ ListCountsAllMatches
    /\ (response.op = "search_sessions" /\ response.success)
           => /\ response.total_matched = Len(response.sessions)
              /\ response.total_matched
                     = Min(EffectiveLimit(response.query), Len(SearchMatches(response.query)))

\* a list response with more matches than its limit
C16_ListExceedsLimit ==
    /\ response.op = "get_sessions" /\ response.code = 200
    /\ response.matched_count = 2 /\ response.returned_count = 1 /\ response.query.limit = 1

\* the response in hand answers a search whose host pattern does not compile
InvalidPatternSearch ==
    response.op = "search_sessions" /\ ~RegexCompiles(response.query.host)

\* C17: a search whose host pattern is no regular expression reports the
\* error and still returns the records that the other filters allow (up to
\* the limit).  The buffers are those the request has read: no request
\* changes them without replacing the response.
C17_InvalidPatternKeepsOtherFilters ==
    InvalidPatternSearch
        => LET others == [response.query EXCEPT !.host = <<>>]
           IN  /\ response.error = "re.error"
               /\ Len(response.sessions)
                      = Min(EffectiveLimit(others), Len(SearchMatches(others)))

\* what the code does: the whole search is answered with the error, success
\* false and no record, with status 200
C17_InvalidPatternFailsSearch ==
    InvalidPatternSearch
        => /\ response.code = 200 /\ ~response.success /\ response.error = "re.error"
           /\ response.sessions = <<>> /\ response.total_matched = 0

\* a search request leaves both buffers as they are
C17_SearchLeavesBuffers ==
    [][response'.op = "search_sessions"
           => live_sessions' = live_sessions /\ suspicious_sessions' = suspicious_sessions]_vars

---------------------------------------------------------------------------
(* The handlers step by step, run by concurrent workers.  A step is one     *)
(* statement on the shared buffers; whatever a handler computes on its own  *)
(* locals belongs to the step before.                                       *)

MaxConcIngest == 2    \* sessions posted per behaviour of SpecConc

ConcPayloads == {Mapping(RawPlain), Mapping(RawAlert)}

\* a lock that every thread may enter at any time
CanAcquire_Always(holder) == TRUE

\* threading.Lock: `with self.session_lock:` enters only while no thread holds it
CanAcquire(holder) == holder = NoWorker

At(w, label) == threads[w].pc = label

\* sessions posted so far: stored, or normalized and on their way
Posted ==
    next_oid + Cardinality({w \in Workers : threads[w].pc \in {"ingest_acquire", "ingest_append"}})

\* receive_session: data parsed, sess = self.normalize_session(data)
IngestBegin(w, p) ==
    /\ At(w, "idle") /\ IngestOutcome(p) = "stored"
    /\ threads' = [threads EXCEPT ![w] = [Idle EXCEPT !.pc = "ingest_acquire",
                                                      !.sess = Normalize(p.d, now)]]
    /\ UNCHANGED <<store, now, response, args, assessed, session_lock>>

\* with self.session_lock:
IngestAcquire(w) ==
    /\ At(w, "ingest_acquire") /\ CanAcquire(session_lock)
    /\ session_lock' = w
    /\ threads' = [threads EXCEPT ![w].pc = "ingest_append"]
    /\ UNCHANGED <<store, now, response, args, assessed>>

\* self.live_sessions.append(sess)
IngestAppendLive(w) ==
    LET x == [oid |-> next_oid, rec |-> threads[w].sess]
    IN  /\ At(w, "ingest_append")
        /\ live_sessions' = LiveAfterIngest(live_sessions, x)
        /\ next_oid' = next_oid + 1
        /\ ingested' = Append(ingested, x)
        /\ threads' = [threads EXCEPT ![w].pc = "ingest_check", ![w].sess = x]
        /\ UNCHANGED <<suspicious_sessions, last_clear, now, response, args, assessed,
                       session_lock>>

\* if self.is_immediately_suspicious(sess): self.suspicious_sessions.append(sess)
IngestCheckSuspicious(w) ==
    /\ At(w, "ingest_check")
    /\ suspicious_sessions' = SuspiciousAfterIngest(suspicious_sessions, threads[w].sess)
    /\ threads' = [threads EXCEPT ![w].pc = "ingest_release"]
    /\ UNCHANGED <<live_sessions, next_oid, ingested, last_clear, now, response, args, assessed,
                   session_lock>>

\* the with block ends; return {"ok": True, "id": sess["id"]}, 201
IngestRelease(w) ==
    /\ At(w, "ingest_release")
    /\ session_lock' = NoWorker
    /\ response' = [op |-> "receive_session", code |-> 201, id |-> threads[w].sess.rec.id]
    /\ threads' = [threads EXCEPT ![w] = Idle]
    /\ UNCHANGED <<store, now, args, assessed>>

\* clear_sessions: the request parsed, with self.session_lock:
ClearAcquire(w, clear_suspicious) ==
    /\ At(w, "idle") /\ CanAcquire(session_lock)
    /\ session_lock' = w
    /\ threads' = [threads EXCEPT ![w] = [Idle EXCEPT !.pc = "clear_live",
                                                      !.flag = clear_suspicious]]
    /\ UNCHANGED <<store, now, response, args, assessed>>

\* sessions_cleared = len(self.live_sessions); self.live_sessions.clear()
ClearLive(w) ==
    /\ At(w, "clear_live")
    /\ live_sessions' = <<>>
    /\ ingested' = <<>>
    /\ last_clear' = next_oid
    /\ threads' = [threads EXCEPT ![w].pc = "clear_suspicious", ![w].seen_live = live_sessions]
    /\ UNCHANGED <<suspicious_sessions, next_oid, now, response, args, assessed, session_lock>>

\* if clear_suspicious: ...; self.suspicious_sessions.clear()
ClearSuspicious(w) ==
    /\ At(w, "clear_suspicious")
    /\ suspicious_sessions' = SuspiciousAfterClear(suspicious_sessions, threads[w].flag)
    /\ threads' = [threads EXCEPT ![w].pc = "clear_release",
                                  ![w].seen_suspicious =
                                      IF threads[w].flag THEN suspicious_sessions ELSE <<>>]
    /\ UNCHANGED <<live_sessions, next_oid, ingested, last_clear, now, response, args, assessed,
                   session_lock>>

\* the with block ends; the counts are returned
ClearRelease(w) ==
    /\ At(w, "clear_release")
    /\ session_lock' = NoWorker
    /\ response' = [op |-> "clear_sessions", clear_suspicious |-> threads[w].flag,
                    sessions_cleared |-> Len(threads[w].seen_live),
                    suspicious_cleared |-> Len(threads[w].seen_suspicious)]
    /\ threads' = [threads EXCEPT ![w] = Idle]
    /\ UNCHANGED <<store, now, args, assessed>>

\* get_stats, and health_check, which reads the two lengths the same way:
\* with self.session_lock:
StatsAcquire(w) ==
    /\ At(w, "idle") /\ CanAcquire(session_lock)
    /\ session_lock' = w
    /\ threads' = [threads EXCEPT ![w] = [Idle EXCEPT !.pc = "stats_live"]]
    /\ UNCHANGED <<store, now, response, args, assessed>>

\* sessions_snapshot = list(self.live_sessions); total_sessions = len(sessions_snapshot)
StatsReadLive(w) ==
    /\ At(w, "stats_live")
    /\ threads' = [threads EXCEPT ![w].pc = "stats_suspicious", ![w].seen_live = live_sessions]
    /\ UNCHANGED <<store, now, response, args, assessed, session_lock>>

\* suspicious_count = len(self.suspicious_sessions); seen_suspicious keeps
\* the elements counted
StatsReadSuspicious(w) ==
    /\ At(w, "stats_suspicious")
    /\ threads' = [threads EXCEPT ![w].pc = "stats_release",
                                  ![w].seen_suspicious = suspicious_sessions]
    /\ UNCHANGED <<store, now, response, args, assessed, session_lock>>

\* the with block ends; the statistics are returned
StatsRelease(w) ==
    /\ At(w, "stats_release")
    /\ session_lock' = NoWorker
    /\ response' = [op |-> "get_stats", total_sessions |-> Len(threads[w].seen_live),
                    suspicious_count |-> Len(threads[w].seen_suspicious)]
    /\ threads' = [threads EXCEPT ![w] = Idle]
    /\ UNCHANGED <<store, now, args, assessed>>

\* get_sessions: with self.session_lock:
ListAcquire(w, suspicious_only) ==
    /\ At(w, "idle") /\ CanAcquire(session_lock)
    /\ session_lock' = w
    /\ threads' = [threads EXCEPT ![w] = [Idle EXCEPT !.pc = "list_copy",
                                                      !.flag = suspicious_only]]
    /\ UNCHANGED <<store, now, response, args, assessed>>

\* base_sessions = list(self.suspicious_sessions if suspicious_only else
\* self.live_sessions); the with block ends; the copy is filtered and returned
ListCopyRelease(w) ==
    LET base_sessions == IF threads[w].flag THEN suspicious_sessions ELSE live_sessions
    IN  /\ At(w, "list_copy")
        /\ session_lock' = NoWorker
        /\ response' = [op |-> "get_sessions", code |-> 200, suspicious_only |-> threads[w].flag,
                        total_live |-> Len(base_sessions)]
        /\ threads' = [threads EXCEPT ![w] = Idle]
        /\ UNCHANGED <<store, now, args, assessed>>

NextConc ==
    \/ \E w \in Workers, p \in ConcPayloads : Posted < MaxConcIngest /\ IngestBegin(w, p)
    \/ \E w \in Workers : IngestAcquire(w)
    \/ \E w \in Workers : IngestAppendLive(w)
    \/ \E w \in Workers : IngestCheckSuspicious(w)
    \/ \E w \in Workers : IngestRelease(w)
    \/ \E w \in Workers, cs \in BOOLEAN : ClearAcquire(w, cs)
    \/ \E w \in Workers : ClearLive(w)
    \/ \E w \in Workers : ClearSuspicious(w)
    \/ \E w \in Workers : ClearRelease(w)
    \/ \E w \in Workers : StatsAcquire(w)
    \/ \E w \in Workers : StatsReadLive(w)
    \/ \E w \in Workers : StatsReadSuspicious(w)
    \/ \E w \in Workers : StatsRelease(w)
    \/ \E w \in Workers, so \in BOOLEAN : ListAcquire(w, so)
    \/ \E w \in Workers : ListCopyRelease(w)

SpecConc == Init /\ [][NextConc]_vars

\* what a reader saw of the two buffers fits together: the newest record it
\* saw in live_sessions, when suspicious, is the newest it saw in
\* suspicious_sessions
ObservedTogether(seen_live, seen_suspicious) ==
    (seen_live # <<>> /\ IsImmediatelySuspicious(seen_live[Len(seen_live)].rec))
        => /\ seen_suspicious # <<>>
           /\ seen_suspicious[Len(seen_suspicious)] = seen_live[Len(seen_live)]

\* C3: the append of a suspicious record to live_sessions and its append to
\* suspicious_sessions are one atomic step for every reader under the lock:
\* while a reader is inside its locked block no ingest stands between its two
\* appends, and a reader that has read both buffers never saw a suspicious
\* record as the newest of live_sessions without seeing it in
\* suspicious_sessions.
C3_AtomicIngest ==
    \A r \in Workers :
        /\ threads[r].pc \in {"stats_live", "stats_suspicious", "stats_release", "list_copy"}
               => \A w \in Workers : threads[w].pc # "ingest_check"
        /\ threads[r].pc = "stats_release"
               => ObservedTogether(threads[r].seen_live, threads[r].seen_suspicious)

\* a reader has read both buffers under the lock, the record it saw last is
\* suspicious, and meanwhile another worker waits at the lock with a
\* suspicious session to append
C3_Witness ==
    \E r, w \in Workers :
        /\ threads[r].pc = "stats_release"
        /\ threads[r].seen_live # <<>>
        /\ IsImmediatelySuspicious(threads[r].seen_live[Len(threads[r].seen_live)].rec)
        /\ threads[w].pc = "ingest_acquire"
        /\ IsImmediatelySuspicious(threads[w].sess)

---------------------------------------------------------------------------
(* Snapshots.  get_sessions copies a buffer inside the lock and works on    *)
(* the copy outside of it, while other requests are handled.  The handlers  *)
(* that stay inside the lock from their first access to their last are      *)
(* taken as one step each.                                                  *)

SnapshotPayloads == {Mapping(RawPlain), Mapping(RawAlert)}

\* with self.session_lock: base_sessions = list(self.suspicious_sessions if
\* suspicious_only else self.live_sessions)
ListSnapshot(w, suspicious_only) ==
    /\ At(w, "idle") /\ CanAcquire(session_lock)
    /\ threads' = [threads EXCEPT ![w] =
                       [Idle EXCEPT !.pc = "list_filter", !.flag = suspicious_only,
                                    !.seen_live = IF suspicious_only THEN suspicious_sessions
                                                  ELSE live_sessions]]
    /\ UNCHANGED <<store, now, response, args, assessed, session_lock>>

\* a snapshot that is the buffer itself, not a copy of it
BaseSessions_Alias(w) ==
    IF threads[w].flag THEN suspicious_sessions ELSE live_sessions

\* base_sessions as the handler reads it after the with block: the list it copied
BaseSessions(w) == threads[w].seen_live

\* the copy is filtered (no filter here), sorted and formatted outside the
\* lock, and returned
ListReturn(w) ==
    /\ At(w, "list_filter")
    /\ response' = [op |-> "get_sessions", code |-> 200, suspicious_only |-> threads[w].flag,
                    sessions |-> BaseSessions(w), total_live |-> Len(BaseSessions(w))]
    /\ threads' = [threads EXCEPT ![w] = Idle]
    /\ UNCHANGED <<store, now, args, assessed, session_lock>>

NextSnapshot ==
    \/ \E p \in SnapshotPayloads : next_oid < MaxConcIngest /\ ReceiveSession(p)
    \/ \E cs \in BOOLEAN : ClearSessions(cs)
    \/ \E w \in Workers, so \in BOOLEAN : ListSnapshot(w, so)
    \/ \E w \in Workers : ListReturn(w)

SpecSnapshot == Init /\ [][NextSnapshot]_vars

---------------------------------------------------------------------------
(* _extract_intelligent_content, on the sizes of the texts.  A body is      *)
(* given by its length and by the snippets its middle section yields: the   *)
(* matches of the first catalogue pattern, each with a stripped snippet of  *)
(* code_len characters, all different.                                      *)

HeadBytes == 8000           \* head_size = min(8000, body_size)
TailBytes == 4000           \* tail_size = min(4000, ...)
SnippetLimit == 500         \* len(snippet) < 500
SnippetFormatting == 50     \* bytes_used += len(snippet) + 50
MaxFormatted == 20          \* suspicious_snippets[:20]
DefaultMaxTotal == 24000    \* max_total: int = 24000, and the budget get_session_body passes

s_eval == <<"e","v","a","l","(",")">>

ExtractInputs ==
    {[body_size |-> S, max_total |-> B, matches |-> n, code_len |-> L] :
        S \in {0, 100, 9000, 13000, 20000, 60000},
        B \in {50, 10000, 12001, 12500, DefaultMaxTotal},
        n \in {0, 1, 3, 25},
        L \in {0, 300, 499, 600}}

\* the middle section is long enough to hold the snippets side by side
Feasible(a) ==
    LET head_size == Min(HeadBytes, a.body_size)
        tail_size == Min(TailBytes, Max(0, a.body_size - head_size))
    IN  a.matches * a.code_len <= a.body_size - head_size - tail_size

RECURSIVE SnippetsKept(_, _, _, _)
\* the snippets appended by the two loops: a match is looked at only while
\* bytes_used < pattern_budget, and kept when its snippet is non-empty and
\* shorter than 500
SnippetsKept(remaining, code_len, bytes_used, pattern_budget) ==
    IF remaining = 0 \/ bytes_used >= pattern_budget THEN 0
    ELSE IF code_len > 0 /\ code_len < SnippetLimit
    THEN 1 + SnippetsKept(remaining - 1, code_len, bytes_used + code_len + SnippetFormatting,
                          pattern_budget)
    ELSE SnippetsKept(remaining - 1, code_len, bytes_used, pattern_budget)

\* len(f"[{i}] {pattern} (position ~{position}):\n{code}")
FormattedLen(i, position, code_len) ==
    1 + Len(IntStr(i)) + 2 + Len(s_eval) + 12 + Len(IntStr(position)) + 3 + code_len

RECURSIVE JoinedLen(_, _, _)
\* len("\n\n".join(formatted_patterns)) for the first k snippets
JoinedLen(k, middle_start, code_len) ==
    IF k = 0 THEN 0
    ELSE JoinedLen(k - 1, middle_start, code_len)
         + (IF k > 1 THEN 2 ELSE 0)
         + FormattedLen(k, middle_start + (k - 1) * code_len, code_len)

\* the sizes of the result of _extract_intelligent_content(body_text, _, max_total)
ExtractIntelligentContent(a) ==
    LET body_size == a.body_size
        head_size == Min(HeadBytes, body_size)
        tail_size == Min(TailBytes, Max(0, body_size - head_size))
        pattern_budget == a.max_total - head_size - tail_size
        tail_len == IF body_size > head_size + tail_size THEN tail_size
                    ELSE IF body_size > head_size THEN body_size - head_size
                    ELSE 0
        middle_end == IF body_size > head_size + tail_size THEN body_size - tail_size
                      ELSE body_size
        kept == IF middle_end > head_size /\ pattern_budget > 0
                THEN SnippetsKept(a.matches, a.code_len, 0, pattern_budget) ELSE 0
        patterns_len == JoinedLen(Min(kept, MaxFormatted), head_size, a.code_len)
    IN  IF body_size = 0
        THEN [extraction_method |-> "intelligent", head_size |-> 0, tail_size |-> 0,
              patterns_size |-> 0, patterns_count |-> 0, total_extracted |-> 0]
        ELSE IF body_size <= a.max_total
        THEN [extraction_method |-> "full_content", head_size |-> body_size, tail_size |-> 0,
              patterns_size |-> 0, patterns_count |-> 0, total_extracted |-> body_size]
        ELSE [extraction_method |-> "intelligent", head_size |-> head_size,
              tail_size |-> tail_len, patterns_size |-> patterns_len,
              patterns_count |-> kept,
              total_extracted |-> head_size + tail_len + patterns_len]

InitExtract ==
    /\ live_sessions = <<>>
    /\ suspicious_sessions = <<>>
    /\ now = StartTime
    /\ next_oid = 0
    /\ ingested = <<>>
    /\ last_clear = 0
    /\ response = NoResponse
    /\ args \in {a \in ExtractInputs : Feasible(a)}
    /\ assessed = {}
    /\ session_lock = NoWorker
    /\ threads = [w \in Workers |-> Idle]

\* extraction = self._extract_intelligent_content(response_body, content_type, max_total)
CallExtract ==
    /\ response = NoResponse
    /\ response' = [op |-> "extract_intelligent_content",
                    extraction |-> ExtractIntelligentContent(args)]
    /\ UNCHANGED <<store, now, args, assessed, threading>>

SpecExtract == InitExtract /\ [][CallExtract]_vars

\* C9 as stated: for every body of size S and every budget B < S, head, tail
\* and snippet text together are at most B characters long.
C9_ExtractionBound ==
    (response.op = "extract_intelligent_content" /\ args.max_total < args.body_size)
        => response.extraction.total_extracted <= args.max_total

\* with the budget the body endpoint passes, the extraction stays within it
C9_BoundAtDefaultBudget ==
    (response.op = "extract_intelligent_content" /\ args.max_total = DefaultMaxTotal
     /\ args.max_total < args.body_size)
        => response.extraction.total_extracted <= args.max_total

\* a body over the default budget whose snippets were cut at the twentieth
C9_Witness ==
    /\ response.op = "extract_intelligent_content"
    /\ args.max_total = DefaultMaxTotal /\ args.max_total < args.body_size
    /\ response.extraction.patterns_count > MaxFormatted
    /\ response.extraction.patterns_size > 0

---------------------------------------------------------------------------
(* Ingest of raw mappings of every shape *)

\* raw mappings: the id absent, empty or a number; the status below or above
\* 400; the annotation absent, blank, a text or a number; and one mapping
\* that takes the except block of normalize_session
IngestPayloads ==
    {Mapping([EmptyDict EXCEPT !["id"] = i, !["statusCode"] = st, !["ekfiddleComments"] = c,
                               !["url"] = PyStr(s_http_a_x)]) :
        i \in {Absent, PyStr(<<>>), PyInt(101)},
        st \in {PyInt(200), PyInt(500)},
        c \in {Absent, PyStr(s_blank), PyStr(s_high_eval), PyInt(5)}}
    \cup {Mapping(RawBadUrl)}

NextIngest ==
    \E p \in IngestPayloads : next_oid < MaxQueryIngest /\ ReceiveSession(p)

SpecIngest == Init /\ [][NextIngest]_vars

\* the record carries a threat annotation: the first non-empty one of its
\* three annotation fields is not the empty string
HasAnnotation(session) == Truthy(Annotation(session))

\* the record stored last is also the last of suspicious_sessions
RetainedLast ==
    /\ suspicious_sessions # <<>>
    /\ suspicious_sessions[Len(suspicious_sessions)] = live_sessions[Len(live_sessions)]

\* C12 as stated: on ingest the normalized record is appended to
\* suspicious_sessions if and only if its threat annotation is non-empty or
\* its status code is >= 400.
C12_RetainedIffAnnotatedOrError ==
    (response.op = "receive_session" /\ response.code = 201)
        => LET x == live_sessions[Len(live_sessions)]
           IN  RetainedLast <=> (HasAnnotation(x.rec) \/ x.rec.statusCode >= 400)

\* C12, the direction that holds: a record without annotation and with a
\* status below 400 is never appended to suspicious_sessions
C12_CleanNeverRetained ==
    (response.op = "receive_session" /\ response.code = 201)
        => LET x == live_sessions[Len(live_sessions)]
           IN  (~HasAnnotation(x.rec) /\ x.rec.statusCode < 400) => ~RetainedLast

\* C14 as stated: every record held in either buffer has a non-empty id,
\* whatever raw mappings were ingested.
C14_NonEmptyId ==
    /\ \A i \in 1..Len(live_sessions) : live_sessions[i].rec.id # <<>>
    /\ \A i \in 1..Len(suspicious_sessions) : suspicious_sessions[i].rec.id # <<>>

\* C14, what holds: a held record's id is empty only when the raw mapping
\* carried the empty string under its first id alias that is not null
C14_EmptyIdOnlyFromPayload ==
    (response.op = "receive_session" /\ response.code = 201
     /\ live_sessions[Len(live_sessions)].rec.id = <<>>)
        => SuppliedId(response.request.d) = <<PyStr(<<>>)>>

\* the flag that classifying the stored session x yields is not empty
Flagged(x) == QuickRiskAssessment(x.rec).flag # ""

\* C25: suspicious_sessions holds only records whose classification carries
\* a non-empty flag, and the record just ingested was appended to
\* suspicious_sessions exactly when classifying it yields a non-empty flag.
C25_RetainedIffFlagged ==
    /\ \A i \in 1..Len(suspicious_sessions) : Flagged(suspicious_sessions[i])
    /\ (response.op = "receive_session" /\ response.code = 201)
           => (RetainedLast <=> Flagged(live_sessions[Len(live_sessions)]))

\* a record with status 500 and no annotation was retained, under the flag
\* "error_status"
C25_Witness ==
    /\ response.op = "receive_session" /\ response.code = 201
    /\ RetainedLast
    /\ LET x == live_sessions[Len(live_sessions)]
       IN  /\ x.rec.statusCode = 500 /\ ~HasAnnotation(x.rec)
           /\ QuickRiskAssessment(x.rec).flag = "error_status"

---------------------------------------------------------------------------
(* Lookups by id, with the clock running and the buffers cleared *)

s_nope == <<"n", "o", "p", "e">>

\* the session_id path segments requested: the ids held, and one that is not
LookupIds == {live_sessions[i].rec.id : i \in 1..Len(live_sessions)} \cup {s_nope}

LookupPayloads == {Mapping(RawPlain), Mapping(RawAlert), Mapping(RawError), Mapping(RawHuge)}

NextLookup ==
    \/ Tick
    \/ \E p \in LookupPayloads : next_oid < MaxQueryIngest /\ ReceiveSession(p)
    \/ \E cs \in BOOLEAN : ClearSessions(cs)
    \/ \E id \in LookupIds : GetSessionDetails(id)

SpecLookup == Init /\ [][NextLookup]_vars

\* all classifications recorded for one stored record agree
Deterministic ==
    \A a, b \in assessed : a[1] = b[1] => a[2] = b[2]

---------------------------------------------------------------------------
(* The four lookups by id, on buffers that evict and are cleared *)

\* ingests of one execution: one more than live_sessions holds
MaxLookupIngest == 3

\* two sessions under the id 101, one under the id 7
ByIdPayloads == {Mapping(RawPlain), Mapping(RawHuge), Mapping(RawAlert)}

\* the session_id path segments requested
ByIdRequests == {<<"1","0","1">>, <<"7">>, s_nope}

NextById ==
    \/ \E p \in ByIdPayloads : next_oid < MaxLookupIngest /\ ReceiveSession(p)
    \/ \E cs \in BOOLEAN : ClearSessions(cs)
    \/ \E id \in ByIdRequests : GetSessionDetails(id)
    \/ \E id \in ByIdRequests : GetSessionHeaders(id)
    \/ \E id \in ByIdRequests : GetSessionBody(id)
    \/ \E id \in ByIdRequests : GetSessionEkfiddle(id)

SpecById == Init /\ [][NextById]_vars

\* the response in hand answers a lookup by id
LookupOps == {"get_session_details", "get_session_headers", "get_session_body",
              "get_session_ekfiddle"}

\* the lookup answered by the response in hand found the most recently
\* ingested record of live_sessions with the requested id, or reported not
\* found when live_sessions holds none.  Every ingest and every clear replaces
\* the response, so live_sessions is what the lookup has read.
LatestOrNotFound ==
    LET held == {i \in 1..Len(live_sessions) : live_sessions[i].rec.id = response.session_id}
    IN  IF held = {} THEN ~response.found
        ELSE /\ response.found
             /\ \E i \in held : /\ response.session = live_sessions[i]
                                /\ \A j \in held : live_sessions[j].oid <= live_sessions[i].oid

\* C18: every lookup by id (detail, headers, body, threat-annotation detail)
\* returns the most recently ingested held record with the requested id, and
\* not found exactly when no held record has that id.
C18_LookupLatestOrNotFound ==
    response.op \in LookupOps => LatestOrNotFound

\* what the code does: the claim holds for the detail, headers and body lookups
C18_LatestExceptAnnotationDetail ==
    response.op \in LookupOps \ {"get_session_ekfiddle"} => LatestOrNotFound

\* the threat-annotation lookup returns the oldest held record with the id
C18_AnnotationDetailOldest ==
    (response.op = "get_session_ekfiddle" /\ response.found)
        => \A i \in 1..Len(live_sessions) :
               live_sessions[i].rec.id = response.session_id
                   => response.session.oid <= live_sessions[i].oid

\* a lookup has answered not found for the id of a record that was evicted
C18_EvictedNotFound ==
    /\ response.op \in LookupOps /\ ~response.found
    /\ Len(live_sessions) = LiveMaxlen /\ last_clear = 0
    /\ response.session_id = <<"7">>

---------------------------------------------------------------------------
(* POST /api/clear and the two buffers *)

\* C19: a clear request that targets the flagged buffer (clear_suspicious
\* true, the one way to request it) empties suspicious_sessions and leaves
\* live_sessions unchanged.
C19_FlaggedClearIndependent ==
    [][ClearSessions(TRUE)
           => suspicious_sessions' = <<>> /\ live_sessions' = live_sessions]_vars

\* what the code does: every clear empties live_sessions, and
\* suspicious_sessions is emptied when, and only when, clear_suspicious is set
C19_ClearAlwaysEmptiesLive ==
    [][/\ ClearSessions(TRUE) => suspicious_sessions' = <<>> /\ live_sessions' = <<>>
       /\ ClearSessions(FALSE)
              => suspicious_sessions' = suspicious_sessions /\ live_sessions' = <<>>]_vars

\* a clear with clear_suspicious has removed records of live_sessions
C19_FlaggedClearRemovedLive ==
    /\ response.op = "clear_sessions" /\ response.clear_suspicious
    /\ response.sessions_cleared > 0 /\ response.suspicious_cleared > 0
    /\ live_sessions = <<>>

---------------------------------------------------------------------------
(* The timeline: GET /api/sessions/timeline and the tool sessions_timeline, *)
(* which builds the same buckets from the answer of GET /api/sessions.      *)
(* A bucket is a mapping from its keys to JSON values; a list value is      *)
(* [t |-> "list", items |-> ...].  Grouping by minute and by content type   *)
(* is not modelled.                                                         *)

\* key = session.get('host', 'unknown') / str(session.get('statusCode', 'unknown')) / 'default'
TimelineKey(session, group_by) ==
    IF group_by = "host" THEN session.host
    ELSE IF group_by = "status_code" THEN PyStr(IntStr(session.statusCode))
    ELSE PyStr(<<"d","e","f","a","u","l","t">>)

\* the entry appended to timeline[key]["sessions"]
TimelineSample(x) ==
    [id |-> x.rec.id, url |-> x.rec.url, host |-> x.rec.host, status |-> IntStr(x.rec.statusCode)]

\* timeline after the loop over sessions: timeline[key] = {"count": 0,
\* "sessions": [] if include_details else None}, then count += 1 and, if
\* include_details, sessions.append(...) for each session of the key
Timeline(sessions, group_by, include_details) ==
    LET keys == {TimelineKey(sessions[i].rec, group_by) : i \in 1..Len(sessions)}
        Bucket(k) ==
            LET InBucket(x) == TimelineKey(x.rec, group_by) = k
                members == SelectSeq(sessions, InBucket)
            IN  [count |-> Len(members),
                 sessions |-> IF include_details
                              THEN [t |-> "list",
                                    items |-> [i \in 1..Len(members) |-> TimelineSample(members[i])]]
                              ELSE None]
    IN  [k \in keys |-> Bucket(k)]

\* sum(entry["count"] for entry in sorted_timeline.values())
RECURSIVE TotalSessions(_)
TotalSessions(timeline) ==
    IF DOMAIN timeline = {} THEN 0
    ELSE LET k == CHOOSE k \in DOMAIN timeline : TRUE
         IN  timeline[k].count + TotalSessions([j \in DOMAIN timeline \ {k} |-> timeline[j]])

\* GET /api/sessions/timeline
GetSessionsTimeline(include_details, group_by, filter_host) ==
    LET sessions == FilterSessions(live_sessions, filter_host, None, None)
        timeline == Timeline(sessions, group_by, include_details)
    IN  /\ IF ListRaises(live_sessions, filter_host, None)
           THEN response' = [op |-> "get_sessions_timeline", code |-> 500,
                             include_details |-> include_details]
           ELSE response' = [op |-> "get_sessions_timeline", code |-> 200,
                             include_details |-> include_details, group_by |-> group_by,
                             timeline |-> timeline,
                             timeline_entries |-> Cardinality(DOMAIN timeline),
                             total_sessions |-> TotalSessions(timeline)]
        /\ UNCHANGED <<store, now, args, assessed, threading>>

\* the tool sessions_timeline: get_live_sessions({"limit": 200, "host_filter":
\* filter_host}) asks GET /api/sessions, and the answer's sessions are
\* grouped as above
SessionsTimeline(include_details, group_by, filter_host) ==
    LET sessions == LastN(SortByReceivedAt(FilterSessions(live_sessions, filter_host, None, None)),
                          200)
        timeline == Timeline(sessions, group_by, include_details)
    IN  /\ IF ListRaises(live_sessions, filter_host, None)
           THEN response' = [op |-> "sessions_timeline", code |-> 500,
                             include_details |-> include_details]
           ELSE response' = [op |-> "sessions_timeline", code |-> 200,
                             include_details |-> include_details, group_by |-> group_by,
                             timeline |-> timeline,
                             timeline_entries |-> Cardinality(DOMAIN timeline),
                             total_sessions |-> TotalSessions(timeline)]
        /\ UNCHANGED <<store, now, args, assessed, threading>>

TimelinePayloads == {Mapping(RawPlain), Mapping(RawAlert), Mapping(RawError), Mapping(RawHuge)}

GroupBys == {"host", "status_code", "other"}

HostFilters == {None, PyStr(s_a_com)}

NextTimeline ==
    \/ \E p \in TimelinePayloads : next_oid < MaxQueryIngest /\ ReceiveSession(p)
    \/ \E d \in BOOLEAN, g \in GroupBys, h \in HostFilters : GetSessionsTimeline(d, g, h)
    \/ \E d \in BOOLEAN, g \in GroupBys, h \in HostFilters : SessionsTimeline(d, g, h)

SpecTimeline == Init /\ [][NextTimeline]_vars

\* the response in hand is a timeline
IsTimeline ==
    response.op \in {"get_sessions_timeline", "sessions_timeline"} /\ response.code = 200

\* C20: with sample inclusion off every bucket of a timeline has a count and
\* no entry "sessions" at all; with inclusion on the sample list of every
\* bucket has as many entries as the bucket's count.
C20_SamplesAbsentOrComplete ==
    IsTimeline
        => \A k \in DOMAIN response.timeline :
               LET bucket == response.timeline[k]
               IN  /\ "count" \in DOMAIN bucket
                   /\ IF response.include_details
                      THEN /\ "sessions" \in DOMAIN bucket
                           /\ bucket.sessions.t = "list"
                           /\ Len(bucket.sessions.items) = bucket.count
                      ELSE "sessions" \notin DOMAIN bucket

\* what the code does: with inclusion off the entry "sessions" is present
\* and null
C20_SamplesNullOrComplete ==
    IsTimeline
        => \A k \in DOMAIN response.timeline :
               LET bucket == response.timeline[k]
               IN  /\ DOMAIN bucket = {"count", "sessions"}
                   /\ bucket.count >= 1
                   /\ IF response.include_details
                      THEN /\ bucket.sessions.t = "list"
                           /\ Len(bucket.sessions.items) = bucket.count
                      ELSE bucket.sessions = None

\* a timeline with samples, one bucket holding two of them
C20_TwoSamples ==
    /\ IsTimeline /\ response.include_details
    /\ \E k \in DOMAIN response.timeline : response.timeline[k].count = 2

---------------------------------------------------------------------------
(* The tool sessions_clear in front of POST /api/clear.  The tool's         *)
(* arguments arrive as the JSON object of the tools/call request and are    *)
(* passed on as they are.                                                   *)

\* args.get(name, False)
GetOrFalse(v) == IF v.t = "absent" THEN PyBool(FALSE) ELSE v

\* if not confirm: return {"error": ...}
Confirmed(confirm) == Truthy(GetOrFalse(confirm))

s_false == <<"f","a","l","s","e">>

ClearArgs ==
    {[confirm |-> c, clear_suspicious |-> cs] :
        c \in {Absent, None, PyBool(FALSE), PyBool(TRUE), PyInt(0), PyStr(<<>>), PyStr(s_false)},
        cs \in {Absent, PyBool(TRUE)}}

\* sessions_clear(args); reachable: the request to the store is answered
\* (otherwise requests.post raises ConnectionError)
SessionsClear(a, reachable) ==
    LET clear_suspicious == Truthy(GetOrFalse(a.clear_suspicious))
    IN  IF ~Confirmed(a.confirm)
        THEN /\ response' = [op |-> "sessions_clear", args |-> a, error |-> TRUE, posted |-> FALSE]
             /\ UNCHANGED <<store, now, args, assessed, threading>>
        ELSE IF ~reachable
        THEN /\ response' = [op |-> "sessions_clear", args |-> a, error |-> TRUE, posted |-> TRUE]
             /\ UNCHANGED <<store, now, args, assessed, threading>>
        ELSE /\ live_sessions' = <<>>
             /\ suspicious_sessions' = SuspiciousAfterClear(suspicious_sessions, clear_suspicious)
             /\ ingested' = <<>>
             /\ last_clear' = next_oid
             /\ response' = [op |-> "sessions_clear", args |-> a, error |-> FALSE, posted |-> TRUE,
                             sessions_cleared |-> Len(live_sessions),
                             suspicious_cleared |-> IF clear_suspicious
                                                    THEN Len(suspicious_sessions) ELSE 0]
             /\ UNCHANGED <<now, next_oid, args, assessed, threading>>

ToolPayloads == {Mapping(RawPlain), Mapping(RawAlert), Mapping(RawError)}

NextTool ==
    \/ \E p \in ToolPayloads : next_oid < MaxQueryIngest /\ ReceiveSession(p)
    \/ \E a \in ClearArgs, reachable \in BOOLEAN : SessionsClear(a, reachable)

SpecTool == Init /\ [][NextTool]_vars

\* C21: sessions_clear called without confirm set to true returns an error
\* result, sends no clear request and leaves both buffers unchanged.
C21_ClearNeedsConfirmTrue ==
    [][\A a \in ClearArgs, reachable \in BOOLEAN :
           (SessionsClear(a, reachable) /\ a.confirm # PyBool(TRUE))
               => /\ response'.error /\ ~response'.posted
                  /\ live_sessions' = live_sessions
                  /\ suspicious_sessions' = suspicious_sessions]_vars

\* what the code does: the same for every value of confirm that Python takes
\* as false (absent, null, false, 0, the empty string)
C21_ClearNeedsTruthyConfirm ==
    [][\A a \in ClearArgs, reachable \in BOOLEAN :
           (SessionsClear(a, reachable) /\ ~Truthy(GetOrFalse(a.confirm)))
               => /\ response'.error /\ ~response'.posted
                  /\ live_sessions' = live_sessions
                  /\ suspicious_sessions' = suspicious_sessions]_vars

\* a call with confirm false was answered with the error while records are held
C21_RefusedWhileHolding ==
    /\ response.op = "sessions_clear" /\ response.args.confirm = PyBool(FALSE)
    /\ response.error /\ ~response.posted
    /\ live_sessions # <<>> /\ suspicious_sessions # <<>>

---------------------------------------------------------------------------
(* The annotated branch of _quick_risk_assessment on every combination of   *)
(* a leading severity token and a keyword of one escalation group           *)

SeverityPrefixes ==
    {<<"C","r","i","t","i","c","a","l",":"," ">>, <<"H","i","g","h",":"," ">>,
     <<"M","e","d","i","u","m",":"," ">>, <<"L","o","w",":"," ">>, <<"N","o","t","e",":"," ">>}

KeywordPhrases ==
    {<<"T","r","o","j","a","n"," ","d","r","o","p","p","e","r">>,
     <<"p","h","i","s","h","i","n","g"," ","k","i","t">>,
     <<"J","S"," ","e","v","a","l">>,
     <<"r","e","d","i","r","e","c","t">>}

SeverityInputs ==
    {[statusCode |-> st, ekfiddleComments |-> PyStr(pre \o phrase),
      sessionFlags |-> PyStr(<<>>), ekfiddleFlags |-> PyStr(<<>>)] :
        st \in {0, 200, 500}, pre \in SeverityPrefixes, phrase \in KeywordPhrases}

InitSeverity ==
    /\ live_sessions = <<>>
    /\ suspicious_sessions = <<>>
    /\ now = StartTime
    /\ next_oid = 0
    /\ ingested = <<>>
    /\ last_clear = 0
    /\ response = NoResponse
    /\ args \in SeverityInputs
    /\ assessed = {}
    /\ session_lock = NoWorker
    /\ threads = [w \in Workers |-> Idle]

SpecSeverity == InitSeverity /\ [][CallClassify]_vars

\* the response in hand is the assessment of an annotated session
AnnotatedResponse ==
    response.op = "quick_risk_assessment" /\ response.assessment.flag = "ekfiddle_alert"

\* the level of a score under the thresholds 0.8, 0.6 and 0.4 (in hundredths)
LevelOfScore(score) ==
    IF score >= 80 THEN "CRITICAL"
    ELSE IF score >= 60 THEN "HIGH"
    ELSE IF score >= 40 THEN "MEDIUM"
    ELSE "LOW"

\* C22: for every annotated record the assessed level is the level of the
\* assessed score under the thresholds: >= 0.8 CRITICAL, >= 0.6 HIGH,
\* >= 0.4 MEDIUM, else LOW.
C22_LevelAgreesWithScore ==
    AnnotatedResponse => response.assessment.level = LevelOfScore(response.assessment.score)

\* what the code does: score and level are assigned side by side, the score
\* is one of five values and never below 0.4, the level is never LOW, and
\* CRITICAL goes with the score 1.0 only
C22_LevelAssignedBesideScore ==
    AnnotatedResponse
        => /\ response.assessment.score \in {40, 50, 65, 85, 100}
           /\ response.assessment.level \in {"MEDIUM", "HIGH", "CRITICAL"}
           /\ response.assessment.level = "CRITICAL" => response.assessment.score = 100

\* the annotation of the assessed session, lower-cased as the assessment reads it
AssessedAnnotation == Lower(Strip(Annotation(args).s))

\* C23: an annotation whose leading severity token is critical is assessed
\* CRITICAL with score 1.0, whatever escalation keyword follows.
C23_CriticalNeverLowered ==
    (AnnotatedResponse /\ LeadingToken(s_critical, AssessedAnnotation))
        => /\ response.assessment.score = 100
           /\ response.assessment.level = "CRITICAL"

\* what the code does: the score of a critical annotation is 1.0, and its
\* level is CRITICAL unless a phishing term and no malware term is found
C23_CriticalLoweredByPhishing ==
    (AnnotatedResponse /\ LeadingToken(s_critical, AssessedAnnotation))
        => /\ response.assessment.score = 100
           /\ response.assessment.level
                  = IF AnyIn(PhishingTerms, AssessedAnnotation)
                       /\ ~AnyIn(MalwareTerms, AssessedAnnotation)
                    THEN "HIGH" ELSE "CRITICAL"

\* a critical annotation with a generic keyword was assessed CRITICAL
C23_CriticalKeptWithGeneric ==
    /\ AnnotatedResponse /\ LeadingToken(s_critical, AssessedAnnotation)
    /\ AnyIn(GenericTerms, AssessedAnnotation)
    /\ response.assessment.level = "CRITICAL"

---------------------------------------------------------------------------
(* The lock, request by request.  Every handler is followed from the moment *)
(* it asks for session_lock: it waits, enters its with block, works inside  *)
(* it, and leaves it by running off its end, by a return or by an           *)
(* exception.  What a worker does between two labels is one step.           *)

\* a session whose annotation is a number: classifying it raises
RawBadNote == With(RawPlain, "ekfiddleComments", PyInt(5))

LockPayloads == {Mapping(RawPlain), Mapping(RawBadNote)}

\* the id both payloads carry
s_101 == <<"1","0","1">>

\* the labels at which a worker waits for the lock, and those inside a with block
Waiting == {"ingest_acquire", "clear_acquire", "detail_acquire", "search_acquire", "list_acquire"}

Inside == {"ingest_append", "ingest_check", "ingest_release", "clear_live", "clear_suspicious",
           "clear_release", "detail_scan", "detail_release", "search_loop", "search_release",
           "list_copy"}

\* a with block that keeps the lock when an exception leaves it
LockAfterExit_KeptOnRaise(w, raised) == IF raised THEN w ELSE NoWorker

\* session_lock after worker w has left its with block: __exit__ releases it
\* on every way out
LockAfterExit(w, raised) == NoWorker

\* with self.session_lock: entered by a waiting worker
Enter(w, waiting, inside) ==
    /\ At(w, waiting) /\ CanAcquire(session_lock)
    /\ session_lock' = w
    /\ threads' = [threads EXCEPT ![w].pc = inside]
    /\ UNCHANGED <<store, now, response, args, assessed>>

\* clear_sessions: data = request.get_json() or {}; clear_suspicious read
ClearBegin(w, clear_suspicious) ==
    /\ At(w, "idle")
    /\ threads' = [threads EXCEPT ![w] = [Idle EXCEPT !.pc = "clear_acquire",
                                                      !.flag = clear_suspicious]]
    /\ UNCHANGED <<store, now, response, args, assessed, session_lock>>

ClearEnter(w) == Enter(w, "clear_acquire", "clear_live")

\* get_session_details(session_id) called
DetailBegin(w) ==
    /\ At(w, "idle")
    /\ threads' = [threads EXCEPT ![w] = [Idle EXCEPT !.pc = "detail_acquire"]]
    /\ UNCHANGED <<store, now, response, args, assessed, session_lock>>

DetailEnter(w) == Enter(w, "detail_acquire", "detail_scan")

\* inside the with block: for session in reversed(self.live_sessions): if the
\* id is the requested one, detail = self._build_session_detail(session),
\* which classifies the session, and return jsonify(detail).  flag: an
\* exception left the block; seen_live: the session found
DetailScan(w) ==
    LET found == FindLatestById(live_sessions, s_101)
    IN  /\ At(w, "detail_scan")
        /\ threads' = [threads EXCEPT ![w].pc = "detail_release",
                                      ![w].seen_live = found,
                                      ![w].flag = found # <<>>
                                                  /\ QuickRiskAssessment(found[1].rec).raised]
        /\ UNCHANGED <<store, now, response, args, assessed, session_lock>>

\* the with block is left: by the return inside it, by running off its end
\* (404), or by the exception, answered by the handler's except (500)
DetailRelease(w) ==
    /\ At(w, "detail_release")
    /\ session_lock' = LockAfterExit(w, threads[w].flag)
    /\ response' = [op |-> "get_session_details",
                    code |-> IF threads[w].flag THEN 500
                             ELSE IF threads[w].seen_live = <<>> THEN 404 ELSE 200]
    /\ threads' = [threads EXCEPT ![w] = Idle]
    /\ UNCHANGED <<store, now, args, assessed>>

\* search_sessions: the query parsed, the patterns compiled
SearchBegin(w) ==
    /\ At(w, "idle")
    /\ threads' = [threads EXCEPT ![w] = [Idle EXCEPT !.pc = "search_acquire"]]
    /\ UNCHANGED <<store, now, response, args, assessed, session_lock>>

SearchEnter(w) == Enter(w, "search_acquire", "search_loop")

\* inside the with block: for s in reversed(list(self.live_sessions)): the
\* filter chain, self._format_session_overview(s), out.append(overview)
SearchLoop(w) ==
    /\ At(w, "search_loop")
    /\ threads' = [threads EXCEPT ![w].pc = "search_release",
                                  ![w].seen_live = live_sessions,
                                  ![w].flag = \E i \in 1..Len(live_sessions) :
                                                  QuickRiskAssessment(live_sessions[i].rec).raised]
    /\ UNCHANGED <<store, now, response, args, assessed, session_lock>>

\* the with block is left, by its end or by the exception of a classification
SearchRelease(w) ==
    /\ At(w, "search_release")
    /\ session_lock' = LockAfterExit(w, threads[w].flag)
    /\ response' = [op |-> "search_sessions", code |-> 200, success |-> ~threads[w].flag,
                    total_matched |-> IF threads[w].flag THEN 0 ELSE Len(threads[w].seen_live)]
    /\ threads' = [threads EXCEPT ![w] = Idle]
    /\ UNCHANGED <<store, now, args, assessed>>

\* get_sessions: the query parsed
ListBegin(w) ==
    /\ At(w, "idle")
    /\ threads' = [threads EXCEPT ![w] = [Idle EXCEPT !.pc = "list_acquire"]]
    /\ UNCHANGED <<store, now, response, args, assessed, session_lock>>

ListEnter(w) == Enter(w, "list_acquire", "list_copy")

\* base_sessions = list(self.live_sessions), and the with block ends
ListCopy(w) ==
    /\ At(w, "list_copy")
    /\ session_lock' = LockAfterExit(w, FALSE)
    /\ threads' = [threads EXCEPT ![w].pc = "list_filter", ![w].seen_live = live_sessions]
    /\ UNCHANGED <<store, now, response, args, assessed>>

\* outside the with block: _filter_sessions, sort, _format_session_overview
\* of every session, which classifies it; an exception is answered 500
ListFilter(w) ==
    /\ At(w, "list_filter")
    /\ response' = [op |-> "get_sessions",
                    code |-> IF \E i \in 1..Len(threads[w].seen_live) :
                                    QuickRiskAssessment(threads[w].seen_live[i].rec).raised
                             THEN 500 ELSE 200,
                    total_live |-> Len(threads[w].seen_live)]
    /\ threads' = [threads EXCEPT ![w] = Idle]
    /\ UNCHANGED <<store, now, args, assessed, session_lock>>

\* worker w enters a with block
Acquire(w) ==
    IngestAcquire(w) \/ ClearEnter(w) \/ DetailEnter(w) \/ SearchEnter(w) \/ ListEnter(w)

\* worker w goes on with what it has started
Proceed(w) ==
    \/ IngestAppendLive(w) \/ IngestCheckSuspicious(w) \/ IngestRelease(w)
    \/ ClearLive(w) \/ ClearSuspicious(w) \/ ClearRelease(w)
    \/ DetailScan(w) \/ DetailRelease(w)
    \/ SearchLoop(w) \/ SearchRelease(w)
    \/ ListCopy(w) \/ ListFilter(w)

NextLock ==
    \/ \E w \in Workers, p \in LockPayloads : Posted < MaxConcIngest /\ IngestBegin(w, p)
    \/ \E w \in Workers, cs \in BOOLEAN : ClearBegin(w, cs)
    \/ \E w \in Workers : DetailBegin(w)
    \/ \E w \in Workers : SearchBegin(w)
    \/ \E w \in Workers : ListBegin(w)
    \/ \E w \in Workers : Acquire(w)
    \/ \E w \in Workers : Proceed(w)

SpecLock == Init /\ [][NextLock]_vars

\* worker w enters the with block of an ingest, a clear or a lookup
AcquireLive(w) == IngestAcquire(w) \/ ClearEnter(w) \/ DetailEnter(w)

\* worker w goes on with its ingest, clear or lookup
ProceedLive(w) ==
    \/ IngestAppendLive(w) \/ IngestCheckSuspicious(w) \/ IngestRelease(w)
    \/ ClearLive(w) \/ ClearSuspicious(w) \/ ClearRelease(w)
    \/ DetailScan(w) \/ DetailRelease(w)

\* the handlers that change the buffers, and the lookup by id
NextLive ==
    \/ \E w \in Workers, p \in LockPayloads : Posted < MaxConcIngest /\ IngestBegin(w, p)
    \/ \E w \in Workers : ClearBegin(w, TRUE)
    \/ \E w \in Workers : DetailBegin(w)
    \/ \E w \in Workers : AcquireLive(w)
    \/ \E w \in Workers : ProceedLive(w)

\* every thread that runs goes on (the server gives each request its own
\* thread), and the lock is fair: a thread that finds it free again and again
\* enters in the end
FairSpecLive ==
    /\ Init /\ [][NextLive]_vars
    /\ \A w \in Workers : WF_vars(ProceedLive(w)) /\ SF_vars(AcquireLive(w))

\* the labels from which a reader's next step filters, formats or classifies
ReadWork == {"detail_scan", "search_loop", "list_filter"}

\* C26: no read operation holds the lock while it filters, formats or
\* classifies records: a reader about to do such work is outside its with
\* block.
C26_LockOnlyWhileCopying ==
    \A w \in Workers : threads[w].pc \in ReadWork => session_lock # w

\* what the code does: get_sessions alone works on its copy outside the
\* lock; search_sessions and get_session_details do all their work inside
C26_OnlyListWorksOutside ==
    \A w \in Workers :
        /\ threads[w].pc = "list_filter" => session_lock # w
        /\ threads[w].pc \in {"detail_scan", "search_loop"} => session_lock = w

\* a list request filters its copy while an ingest is inside the lock
C26_ListFiltersBesideIngest ==
    \E r, w \in Workers :
        /\ threads[r].pc = "list_filter" /\ threads[r].seen_live # <<>>
        /\ threads[w].pc = "ingest_check" /\ session_lock = w

\* the lock is held by the one worker that is inside a with block, if any
LockHeldByTheOneInside ==
    \A w \in Workers : (threads[w].pc \in Inside) <=> (session_lock = w)

---------------------------------------------------------------------------
(* _extract_intelligent_content, on the places of the texts.  A body is    *)
(* given by its length, by the places in its middle section where the      *)
(* first catalogue pattern matches, by the places of the newlines of the   *)
(* middle section, and by the white space strip() removes around a         *)
(* snippet.  A region is the half-open range from..to of the body.         *)

ContextChars == 150         \* context_chars = 150
LineSlack == 50             \* rfind('\n', start - 50, ...), find('\n', ..., end + 50)

s_eval_call == <<"e","v","a","l","(">>

\* len(match.group()) for r'eval\s*\(' on "eval("
MatchLen == Len(s_eval_call)

Greatest(S) == CHOOSE i \in S : \A j \in S : i >= j

\* str.rfind('\n', start, end) on a text of length len whose newlines are at nl
PyRFind(nl, len, start, end) ==
    LET lo == IF start < 0 THEN Max(0, start + len) ELSE start
        hi == Min(end, len)
        found == {i \in nl : lo <= i /\ i < hi}
    IN  IF found = {} THEN -1 ELSE Greatest(found)

\* str.find('\n', start, end), start >= 0
PyFind(nl, len, start, end) ==
    LET hi == Min(end, len)
        found == {i \in nl : start <= i /\ i < hi}
    IN  IF found = {} THEN -1 ELSE Least(found)

\* middle_end = body_size with no tail cut off the end of the body
MiddleEnd_WholeRest(body_size, head_size, tail_size) == body_size

\* middle_end = body_size - tail_size if body_size > head_size + tail_size else body_size
MiddleEnd(body_size, head_size, tail_size) ==
    IF body_size > head_size + tail_size THEN body_size - tail_size ELSE body_size

\* the slice of middle_section one match yields, and the position recorded with it
SnippetSlice(a, middle_start, middle_len, match_start) ==
    LET match_end == match_start + MatchLen
        start == Max(0, match_start - ContextChars)
        end == Min(middle_len, match_end + ContextChars)
        back == PyRFind(a.newlines, middle_len, start - LineSlack, match_start)
        line_start == IF back = -1 THEN start ELSE back + 1
        fwd == PyFind(a.newlines, middle_len, match_end, end + LineSlack)
        line_end == IF fwd = -1 THEN end ELSE fwd
        lead == Min(a.lead, match_start - line_start)
        trail == Min(a.trail, line_end - match_end)
    IN  [from |-> middle_start + line_start + lead,
         to |-> middle_start + line_end - trail,
         position |-> middle_start + match_start]

RECURSIVE SnippetSlices(_, _, _, _, _, _)
\* for match in re.finditer(...): the entries appended to suspicious_snippets
SnippetSlices(a, middle_start, middle_len, matches, bytes_used, pattern_budget) ==
    IF matches = <<>> \/ bytes_used >= pattern_budget THEN <<>>
    ELSE LET p == SnippetSlice(a, middle_start, middle_len, Head(matches))
             code_len == p.to - p.from
         IN  IF code_len > 0 /\ code_len < SnippetLimit
             THEN <<p>> \o SnippetSlices(a, middle_start, middle_len, Tail(matches),
                                         bytes_used + code_len + SnippetFormatting,
                                         pattern_budget)
             ELSE SnippetSlices(a, middle_start, middle_len, Tail(matches),
                                bytes_used, pattern_budget)

\* where head, tail and the snippets of the result come from in body_text
ExtractRegions(a) ==
    LET body_size == a.body_size
        head_size == Min(HeadBytes, body_size)
        tail_size == Min(TailBytes, Max(0, body_size - head_size))
        pattern_budget == a.max_total - head_size - tail_size
        tail_from == IF body_size > head_size + tail_size THEN body_size - tail_size
                     ELSE IF body_size > head_size THEN head_size
                     ELSE body_size
        middle_start == head_size
        middle_end == MiddleEnd(body_size, head_size, tail_size)
        middle_len == Max(0, middle_end - middle_start)
    IN  IF body_size = 0
        THEN [head |-> [from |-> 0, to |-> 0], tail |-> [from |-> 0, to |-> 0],
              middle |-> [from |-> 0, to |-> 0], snippets |-> <<>>]
        ELSE IF body_size <= a.max_total
        THEN [head |-> [from |-> 0, to |-> body_size],
              tail |-> [from |-> body_size, to |-> body_size],
              middle |-> [from |-> body_size, to |-> body_size], snippets |-> <<>>]
        ELSE [head |-> [from |-> 0, to |-> head_size],
              tail |-> [from |-> tail_from, to |-> body_size],
              middle |-> [from |-> middle_start, to |-> middle_start + middle_len],
              snippets |-> IF middle_len > 0 /\ pattern_budget > 0
                           THEN SnippetSlices(a, middle_start, middle_len,
                                              SelectSeq(a.matches,
                                                  LAMBDA m : m + MatchLen <= middle_len),
                                              0, pattern_budget)
                           ELSE <<>>]

RegionInputs ==
    {[body_size |-> S, max_total |-> B, matches |-> m, newlines |-> nl,
      lead |-> ld, trail |-> tr] :
        S \in {100, 9000, 12100, 12400, 13000, 60000},
        B \in {50, 10000, 12050, 12500, DefaultMaxTotal},
        m \in {<<>>} \cup
              {<<x>> : x \in {0, 60, 160, 395, 995, 47995}} \cup
              {<<x, y>> : x \in {0, 160}, y \in {210, 395, 995, 47995}},
        nl \in {{}} \cup
               {{x} : x \in {10, 55, 100, 155, 230, 380, 47990}} \cup
               {{x, y} : x \in {10, 100, 155}, y \in {170, 230, 380, 990}},
        ld \in {0, 2}, tr \in {0, 2}}

\* the places lie in the part of the body left after the largest head and
\* tail, and no newline lies inside a match
RegionFeasible(a) ==
    LET room == Max(0, a.body_size - HeadBytes - TailBytes)
    IN  /\ \A i \in 1..Len(a.matches) : a.matches[i] + MatchLen <= room
        /\ \A x \in a.newlines :
               /\ x < room
               /\ \A i \in 1..Len(a.matches) :
                      x < a.matches[i] \/ x >= a.matches[i] + MatchLen

InitRegions ==
    /\ live_sessions = <<>>
    /\ suspicious_sessions = <<>>
    /\ now = StartTime
    /\ next_oid = 0
    /\ ingested = <<>>
    /\ last_clear = 0
    /\ response = NoResponse
    /\ args \in {a \in RegionInputs : RegionFeasible(a)}
    /\ assessed = {}
    /\ session_lock = NoWorker
    /\ threads = [w \in Workers |-> Idle]

\* extraction = self._extract_intelligent_content(response_body, content_type, max_total)
CallExtractRegions ==
    /\ response = NoResponse
    /\ response' = [op |-> "extract_regions", extraction |-> ExtractRegions(args)]
    /\ UNCHANGED <<store, now, args, assessed, threading>>

SpecRegions == InitRegions /\ [][CallExtractRegions]_vars

\* C28: for a body larger than the budget the head is the first
\* min(8000, size) characters, the tail starts at or after the end of the
\* head and ends with the body, and every snippet is a non-empty slice that
\* lies between the end of the head and the start of the tail, recorded with
\* a position inside the slice and so inside the middle of the body.
C28_RegionsDisjoint ==
    (response.op = "extract_regions" /\ args.max_total < args.body_size) =>
        LET x == response.extraction
        IN  /\ x.head = [from |-> 0, to |-> Min(HeadBytes, args.body_size)]
            /\ x.head.to <= x.tail.from
            /\ x.tail.to = args.body_size
            /\ x.tail.to - x.tail.from <= TailBytes
            /\ \A i \in 1..Len(x.snippets) :
                   LET p == x.snippets[i]
                   IN  /\ x.head.to <= p.from /\ p.from < p.to /\ p.to <= x.tail.from
                       /\ p.from <= p.position /\ p.position < p.to

\* two snippets from a body over the budget, the later one ending where the
\* tail starts
C28_Witness ==
    /\ response.op = "extract_regions" /\ args.max_total < args.body_size
    /\ Len(response.extraction.snippets) = 2
    /\ response.extraction.tail.to - response.extraction.tail.from = TailBytes
    /\ \E i \in 1..2 :
           response.extraction.snippets[i].to = response.extraction.tail.from

---------------------------------------------------------------------------
(* Synthesized ids: raw records without any id alias, ingested one after   *)
(* the other while the clock stands or advances                            *)

\* a second record without id alias, from another host
RawNoIdOther == With(RawError, "host", PyStr(s_b_tk))

\* a record without id alias whose url is no string: the missing-id warning
\* raises and the except block synthesizes the id
RawNoIdBadUrl == With(With(EmptyDict, "url", PyInt(5)), "host", PyStr(s_a_com))

SynthPayloads == {Mapping(RawError), Mapping(RawNoIdOther), Mapping(RawNoIdBadUrl)}

NextSynth ==
    \/ Tick
    \/ \E p \in SynthPayloads : next_oid < MaxIngest /\ ReceiveSession(p)

SpecSynth == Init /\ [][NextSynth]_vars

\* C29 as stated: two distinct raw records without id alias, ingested one
\* after the other, are stored under different synthesized ids, also when
\* the clock shows the same millisecond at both ingests.
C29_SynthesizedIdsDiffer ==
    [][(/\ response.op = "receive_session" /\ response.code = 201
        /\ SuppliedId(response.request.d) = <<>>
        /\ response'.op = "receive_session" /\ response'.code = 201
        /\ SuppliedId(response'.request.d) = <<>>
        /\ response'.request # response.request)
       => response'.id # response.id]_vars

\* what holds: the two synthesized ids differ when the clock advanced
\* between the two ingests, or when one record took the try block and the
\* other the except block
C29_DifferAcrossMilliseconds ==
    [][(/\ response.op = "receive_session" /\ response.code = 201
        /\ SuppliedId(response.request.d) = <<>>
        /\ response'.op = "receive_session" /\ response'.code = 201
        /\ SuppliedId(response'.request.d) = <<>>
        /\ \/ response'.at # response.at
           \/ (NormalizeError(response'.request.d) = <<>>)
                  # (NormalizeError(response.request.d) = <<>>))
       => response'.id # response.id]_vars

\* both buffers hold two different records under one synthesized id
C29_SameIdTwice ==
    /\ Len(live_sessions) = 2
    /\ live_sessions[1].rec.id = live_sessions[2].rec.id
    /\ IsSynthetic(live_sessions[1].rec.id)
    /\ live_sessions[1].rec.host # live_sessions[2].rec.host
    /\ Len(suspicious_sessions) = 1

---------------------------------------------------------------------------
(* Records of the except block of normalize_session, once ingested *)

\* C30: a record the except block of normalize_session produced is stored
\* with a note that starts with "normalization_error: ", is appended to
\* suspicious_sessions as well as to live_sessions, and is classified with
\* the flag "ekfiddle_alert" and a score of at least 0.5, whatever the raw
\* mapping carried as annotation or status.
C30_FallbackRecordFlagged ==
    (/\ response.op = "receive_session" /\ response.code = 201
     /\ NormalizeError(response.request.d) # <<>>)
        => LET x == live_sessions[Len(live_sessions)]
               assessment == QuickRiskAssessment(x.rec)
           IN  /\ StartsWith(x.rec.ekfiddleComments.s, s_normalization_error)
               /\ RetainedLast
               /\ IsImmediatelySuspicious(x.rec)
               /\ ~assessment.raised
               /\ assessment.flag = "ekfiddle_alert"
               /\ assessment.score >= 50

\* a raw mapping without annotation and without status took the except
\* block and its record is the last of both buffers
C30_Witness ==
    /\ response.op = "receive_session" /\ response.code = 201
    /\ NormalizeError(response.request.d) # <<>>
    /\ response.request.d["ekfiddleComments"].t = "absent"
    /\ response.request.d["sessionFlags"].t = "absent"
    /\ response.request.d["ekfiddleFlags"].t = "absent"
    /\ response.request.d["statusCode"].t = "absent"
    /\ response.request.d["status"].t = "absent"
    /\ RetainedLast
    /\ live_sessions[Len(live_sessions)].rec.statusCode = 0
    /\ QuickRiskAssessment(live_sessions[Len(live_sessions)].rec).score = 50

====
